---- MODULE Spec2Model ----
(***************************************************************************)
(* A model of the NASDAQ pattern scanner: the Marketstack client           *)
(* (marketstack_client.py: response cache, rate limiter, batch fetch), the *)
(* scan handlers that call it (main.py) and the pattern classifiers        *)
(* (pattern_detector.py).                                                  *)
(*                                                                         *)
(* Time is counted in ticks, TicksPerSec ticks to the second; time.time()  *)
(* is the variable now.  A Python dict whose key order is never read is a  *)
(* function; one whose key order is read (the payload a fetch returns) is  *)
(* a record [order, at].  An Optional value is None or Some(v).  The dicts  *)
(* of DataFrames that a fetch builds are objects shared by reference       *)
(* between the cache and the callers: they live in heap, and the cache     *)
(* and the callers hold their index there.                                 *)
(***************************************************************************)
EXTENDS Integers, Sequences, FiniteSets, TLC

VARIABLES
    now,                \* time.time(), in ticks
    heap,               \* the payload objects built so far, by reference
    cache,              \* MarketstackClient.cache: key -> payload reference
    cache_timestamps,   \* MarketstackClient.cache_timestamps: key -> time
    api_calls_made,     \* MarketstackClient.api_calls_made
    last_request_time,  \* MarketstackClient.last_request_time, NoTime for None
    wire,               \* history: every HTTP request sent upstream, in order
    call,               \* history: the last operation run on the client
    cleared_at,         \* history: Len(wire) at the last clear_cache
    clears,             \* number of clear_cache calls so far (bounded)
    ticked,             \* whether the clock advanced since the last fetch
    env,                \* the run's environment: the calls made, the answers
                        \* the upstream gives, the delays between calls
    argsort_ties,       \* the build: how numpy.argsort orders equal values
    frame,              \* the DataFrame handed to the classifiers
    detected,           \* the last classifier run and what it returned
    scans               \* the scan requests the server has taken, each with
                        \* its position in its handler

clientVars == <<now, heap, cache, cache_timestamps, api_calls_made,
                last_request_time, wire, call, cleared_at, clears, ticked,
                env, argsort_ties>>
detectVars == <<frame, detected>>
scanVars == <<scans>>

----------------------------------------------------------------------------
(* Bounds of the model *)

TicksPerSec == 2
MaxFetches == 2
MaxClears == 1
MaxScans == 2
SlowTicks == 1

(* Program constants *)

cache_duration == 900
RateLimitSeconds == 1
request_timeout == 30
SecondsPerDay == 86400
LimitCap == 1000
EodBuffer == 5
DefaultPeriodDays == 30

NoTime == 0
Ttl == cache_duration * TicksPerSec
RateTicks == RateLimitSeconds * TicksPerSec
DayTicks == SecondsPerDay * TicksPerSec

----------------------------------------------------------------------------
(* Values *)

None == [some |-> FALSE]
Some(v) == [some |-> TRUE, val |-> v]

Ok(v) == [ok |-> TRUE, val |-> v]
Raise(msg) == [ok |-> FALSE, err |-> msg]

EmptyDict == [k \in {} |-> 0]
DictPut(d, k, v) == [x \in DOMAIN d \cup {k} |-> IF x = k THEN v ELSE d[x]]

\* An insertion-ordered dict: the payload get_*_data_batch builds.
EmptyPayload == [order |-> <<>>, at |-> EmptyDict]

Min(a, b) == IF a < b THEN a ELSE b

\* The symbols of the model in alphabetical order: Python compares strings,
\* TLA+ does not, so a symbol's rank is its place here.
SymbolOrder == <<"AAPL", "MSFT", "NVDA">>
Rank(s) == CHOOSE i \in 1..Len(SymbolOrder) : SymbolOrder[i] = s

RECURSIVE InsertSorted(_, _)
InsertSorted(s, x) ==
    IF s = <<>> THEN <<x>>
    ELSE IF Rank(x) < Rank(Head(s)) THEN <<x>> \o s
    ELSE <<Head(s)>> \o InsertSorted(Tail(s), x)

RECURSIVE sorted(_)
sorted(symbols) ==
    IF symbols = <<>> THEN <<>>
    ELSE InsertSorted(sorted(SubSeq(symbols, 1, Len(symbols) - 1)),
                      symbols[Len(symbols)])

\* ','.join(xs): the string as its sequence of tokens.
RECURSIVE join(_, _)
join(sep, xs) ==
    IF xs = <<>> THEN <<>>
    ELSE IF Len(xs) = 1 THEN xs
    ELSE <<xs[1], sep>> \o join(sep, Tail(xs))

\* What the upstream reads back from a comma-joined list.
RECURSIVE split(_, _)
split(sep, toks) ==
    IF toks = <<>> THEN <<>>
    ELSE IF Head(toks) = sep THEN split(sep, Tail(toks))
    ELSE <<Head(toks)>> \o split(sep, Tail(toks))

----------------------------------------------------------------------------
(* MarketstackClient: cache *)

_is_cache_valid_late(cache_key, t) ==
    /\ cache_key \in DOMAIN cache_timestamps
    /\ t - cache_timestamps[cache_key] <= Ttl

_is_cache_valid(cache_key, t) ==
    /\ cache_key \in DOMAIN cache_timestamps
    /\ t - cache_timestamps[cache_key] < Ttl

_get_from_cache(cache_key, t) ==
    IF _is_cache_valid(cache_key, t) THEN Some(cache[cache_key]) ELSE None

\* Python truth of `cached_data`: None and the empty dict are both false.
Truthy(opt) == opt.some /\ heap[opt.val].order # <<>>

----------------------------------------------------------------------------
(* MarketstackClient.get_historical_data: the request a call resolves to *)

period_map(period) ==
    CASE period = "1d" -> 1
      [] period = "5d" -> 5
      [] period = "1mo" -> 30
      [] period = "3mo" -> 90
      [] period = "6mo" -> 180
      [] period = "1y" -> 365
      [] period = "2y" -> 730
      [] OTHER -> DefaultPeriodDays

ResolveLimit(timeframe, days) ==
    CASE timeframe = "1d" -> Min(days + EodBuffer, LimitCap)
      [] timeframe = "1h" -> Min(days * 24, LimitCap)
      [] timeframe = "30m" -> Min(days * 48, LimitCap)
      [] timeframe = "15m" -> Min(days * 96, LimitCap)
      [] timeframe = "5m" -> Min(days * 288, LimitCap)
      [] OTHER -> LimitCap

interval_map(timeframe) ==
    CASE timeframe = "1h" -> "1hour"
      [] timeframe = "30m" -> "30min"
      [] timeframe = "15m" -> "15min"
      [] timeframe = "5m" -> "5min"
      [] timeframe = "1m" -> "1min"
      [] OTHER -> "1hour"

Day(t) == t \div DayTicks

\* endpoint, interval, date range and limit of a call made at time t
Resolve(timeframe, period, t) ==
    LET days == period_map(period) IN
    [endpoint  |-> IF timeframe = "1d" THEN "eod" ELSE "intraday",
     interval  |-> IF timeframe = "1d" THEN "" ELSE interval_map(timeframe),
     date_from |-> Day(t) - days,
     date_to   |-> Day(t),
     limit     |-> ResolveLimit(timeframe, days)]

\* cache_key of get_eod_data_batch / get_intraday_data_batch
CacheKey(symbols, r) ==
    [prefix      |-> r.endpoint,
     symbols_str |-> join(",", sorted(symbols)),
     interval    |-> r.interval,
     date_from   |-> r.date_from,
     date_to     |-> r.date_to,
     limit       |-> r.limit]

SymbolsParamFirstOnly(symbols) == join(",", SubSeq(symbols, 1, 1))

\* params['symbols']
SymbolsParam(symbols) == join(",", symbols)

----------------------------------------------------------------------------
(* MarketstackClient._make_request *)

\* time.sleep(1.0 - elapsed): how long a request entered at time t waits
RateLimitWait(t) ==
    IF last_request_time # NoTime /\ t - last_request_time < RateTicks
    THEN RateTicks - (t - last_request_time)
    ELSE 0

Responded(resp) == resp.kind = "response"

\* what _make_request returns or raises for the upstream's answer
RequestOutcome(resp) ==
    CASE resp.kind = "timeout" -> Raise("Request timed out. Please try again.")
      [] resp.kind = "network_error" -> Raise("Network error")
      [] resp.status = 200 -> Ok(resp.json)
      [] resp.status = 429 -> Raise("Rate limit exceeded")
      [] OTHER -> Raise("API Error")

----------------------------------------------------------------------------
(* get_eod_data_batch / get_intraday_data_batch: parsing the response *)

\* a JSON null where a number is expected: None in the row, nan in the
\* DataFrame's column
Null == -1

Bar(item) ==
    [Date |-> item.date, Open |-> item.open, High |-> item.high,
     Low |-> item.low, Close |-> item.close, Volume |-> item.volume]

\* the grouping loop: symbol -> list of rows, the symbols in order of first
\* appearance, the rows of each in the order of the response
GroupBySymbol(items) ==
    LET symbols == {items[i].symbol : i \in 1..Len(items)}
        first == [symbol \in symbols |->
                    CHOOSE i \in 1..Len(items) :
                        /\ items[i].symbol = symbol
                        /\ \A j \in 1..(i - 1) : items[j].symbol # symbol]
        place == [symbol \in symbols |->
                    Cardinality({t \in symbols : first[t] <= first[symbol]})]
        of == [symbol \in symbols |->
                    SelectSeq(items, LAMBDA item : item.symbol = symbol)]
    IN [order |-> [k \in 1..Cardinality(symbols) |->
                      CHOOSE symbol \in symbols : place[symbol] = k],
        at |-> [symbol \in symbols |->
                   [i \in 1..Len(of[symbol]) |-> Bar(of[symbol][i])]]]

\* df.sort_values('Date'): rows by ascending date, equal dates in input order
sort_values(rows) ==
    LET place == [i \in 1..Len(rows) |->
                    Cardinality({j \in 1..Len(rows) :
                        \/ rows[j].Date < rows[i].Date
                        \/ rows[j].Date = rows[i].Date /\ j <= i})]
    IN [k \in 1..Len(rows) |-> rows[CHOOSE i \in 1..Len(rows) : place[i] = k]]

\* a DataFrame: its rows and the columns added to it after parsing
DataFrame(rows) == [rows |-> sort_values(rows), cols |-> {}]

ParseResponse(json) ==
    LET grouped == GroupBySymbol(json.data) IN
    [order |-> grouped.order,
     at |-> [s \in DOMAIN grouped.at |-> DataFrame(grouped.at[s])]]

----------------------------------------------------------------------------
(* Floating-point numbers, modelled as exact fractions <<n, d>> with d >= 0
   in lowest terms.  As in IEEE arithmetic a division by zero raises
   nothing: x/0 is <<1, 0>> (inf), <<-1, 0>> (-inf) or <<0, 0>> (nan), and
   every comparison with nan is false. *)

Abs(i) == IF i < 0 THEN -i ELSE i
Sign(i) == IF i < 0 THEN -1 ELSE IF i > 0 THEN 1 ELSE 0

RECURSIVE Gcd(_, _)
Gcd(a, b) == IF b = 0 THEN a ELSE Gcd(b, a % b)

Frac(n, d) ==
    IF d = 0 THEN <<Sign(n), 0>>
    ELSE LET g == Gcd(Abs(n), Abs(d))
         IN <<Sign(d) * (n \div g), Abs(d) \div g>>

F(i) == <<i, 1>>
NaN == <<0, 0>>
IsNan(a) == a[1] = 0 /\ a[2] = 0
FAdd(a, b) ==
    IF a[2] = 0 /\ b[2] = 0
    THEN (IF a[1] = b[1] THEN a ELSE <<0, 0>>)
    ELSE Frac(a[1] * b[2] + b[1] * a[2], a[2] * b[2])
FNeg(a) == <<-a[1], a[2]>>
FSub(a, b) == FAdd(a, FNeg(b))
FMul(a, b) == Frac(a[1] * b[1], a[2] * b[2])
FDiv(a, b) == Frac(a[1] * b[2], a[2] * b[1])
FAbs(a) == <<Abs(a[1]), a[2]>>
FLt(a, b) ==
    /\ ~IsNan(a) /\ ~IsNan(b)
    /\ IF a[2] = 0 /\ b[2] = 0 THEN a[1] < b[1]
       ELSE a[1] * b[2] < b[1] * a[2]
FGt(a, b) == FLt(b, a)
FEq(a, b) == ~IsNan(a) /\ ~IsNan(b) /\ a = b
FLe(a, b) == FLt(a, b) \/ FEq(a, b)
FGe(a, b) == FLe(b, a)

\* Python's min(a, b) and max(a, b): the first argument unless the second
\* compares smaller (larger)
min(a, b) == IF FLt(b, a) THEN b ELSE a
max(a, b) == IF FGt(b, a) THEN b ELSE a

\* min(xs), max(xs) of a non-empty sequence, left to right
RECURSIVE min_of(_)
min_of(xs) ==
    IF Len(xs) = 1 THEN xs[1]
    ELSE min(min_of(SubSeq(xs, 1, Len(xs) - 1)), xs[Len(xs)])
RECURSIVE max_of(_)
max_of(xs) ==
    IF Len(xs) = 1 THEN xs[1]
    ELSE max(max_of(SubSeq(xs, 1, Len(xs) - 1)), xs[Len(xs)])

RECURSIVE sum(_)
sum(xs) ==
    IF xs = <<>> THEN F(0)
    ELSE IF Len(xs) = 1 THEN xs[1]
    ELSE LET h == Len(xs) \div 2
         IN FAdd(sum(SubSeq(xs, 1, h)), sum(SubSeq(xs, h + 1, Len(xs))))

mean(xs) == FDiv(sum(xs), F(Len(xs)))

\* the literals of pattern_detector.py
Pct(i) == Frac(i, 100)
Tenths(i) == Frac(i, 10)
One == F(1)
Zero == F(0)

----------------------------------------------------------------------------
(* scipy.signal.find_peaks(x, distance=d), indices counted from 1 *)

\* _local_maxima_1d: the midpoints of the strict local maxima and of the
\* plateaus higher than both neighbours, from index i on
RECURSIVE PlateauEnd(_, _)
PlateauEnd(x, j) ==
    IF j < Len(x) /\ FEq(x[j], x[j - 1]) THEN PlateauEnd(x, j + 1) ELSE j

RECURSIVE LocalMaxima(_, _)
LocalMaxima(x, i) ==
    IF i >= Len(x) THEN <<>>
    ELSE IF FLt(x[i - 1], x[i])
         THEN LET ahead == PlateauEnd(x, i + 1)
              IN IF FLt(x[ahead], x[i])
                 THEN <<(i + ahead - 1) \div 2>> \o LocalMaxima(x, ahead + 1)
                 ELSE LocalMaxima(x, i + 1)
         ELSE LocalMaxima(x, i + 1)

\* the order in which _select_by_peak_distance visits the peaks: highest
\* first.  Among peaks of equal height the order is that of
\* numpy.argsort, which its default sort does not fix: `ties` says whether
\* the later ("last") or the earlier ("first") of them comes first.
Before(x, peaks, ties, a, b) ==
    \/ FGt(x[peaks[a]], x[peaks[b]])
    \/ /\ ~FGt(x[peaks[b]], x[peaks[a]])
       /\ IF ties = "last" THEN a > b ELSE a < b

RECURSIVE VisitOrder(_, _, _, _)
VisitOrder(x, peaks, ties, left) ==
    IF left = {} THEN <<>>
    ELSE LET a == CHOOSE c \in left :
                    \A b \in left \ {c} : Before(x, peaks, ties, c, b)
         IN <<a>> \o VisitOrder(x, peaks, ties, left \ {a})

RECURSIVE SelectByDistance(_, _, _, _)
SelectByDistance(peaks, order, distance, keep) ==
    IF order = <<>> THEN keep
    ELSE LET j == Head(order) IN
         IF ~keep[j] THEN SelectByDistance(peaks, Tail(order), distance, keep)
         ELSE SelectByDistance(peaks, Tail(order), distance,
                [k \in DOMAIN keep |->
                    IF k # j /\ Abs(peaks[k] - peaks[j]) < distance
                    THEN FALSE ELSE keep[k]])

RECURSIVE Kept(_, _, _)
Kept(peaks, keep, i) ==
    IF i > Len(peaks) THEN <<>>
    ELSE (IF keep[i] THEN <<peaks[i]>> ELSE <<>>) \o Kept(peaks, keep, i + 1)

find_peaks(x, distance) ==
    LET peaks == LocalMaxima(x, 2)
        order == VisitOrder(x, peaks, argsort_ties, 1..Len(peaks))
        keep == SelectByDistance(peaks, order, distance,
                                 [k \in 1..Len(peaks) |-> TRUE])
    IN Kept(peaks, keep, 1)

----------------------------------------------------------------------------
(* PatternDetector *)

min_confidence == Tenths(5)

len(df) == Len(df.rows)
Close(df) == [i \in 1..len(df) |-> F(df.rows[i].Close)]
High(df) == [i \in 1..len(df) |-> F(df.rows[i].High)]
Low(df) == [i \in 1..len(df) |-> F(df.rows[i].Low)]
Volume(df) ==
    [i \in 1..len(df) |->
        IF df.rows[i].Volume = Null THEN NaN ELSE F(df.rows[i].Volume)]

\* xs[-n:]
tail(xs, n) == SubSeq(xs, Len(xs) - n + 1, Len(xs))
Negated(xs) == [i \in 1..Len(xs) |-> FNeg(xs[i])]
Last(xs) == xs[Len(xs)]
Range(xs) == {xs[i] : i \in 1..Len(xs)}

Result(found, confidence) == [found |-> found, confidence |-> confidence]
NotFound == Result(FALSE, Zero)

\* `return confidence > self.min_confidence, confidence`
Scored(confidence) == Result(FGt(confidence, min_confidence), confidence)

detect_bull_flag(df) ==
    IF len(df) < 30 THEN NotFound ELSE
    LET closes == tail(Close(df), 30)
        first_half == SubSeq(closes, 1, 15)
        flagpole_gain == FDiv(FSub(Last(first_half), first_half[1]), first_half[1])
        second_half == SubSeq(closes, 16, 30)
        consolidation_change ==
            FDiv(FSub(Last(second_half), second_half[1]), second_half[1])
        recent_price == Last(closes)
        consolidation_high == max_of(second_half)
        consolidation_low == min_of(second_half)
        consolidation_range == FSub(consolidation_high, consolidation_low)
        position_in_range ==
            FDiv(FSub(recent_price, consolidation_low), consolidation_range)
        confidence ==
            min(One, FAdd(FAdd(
                FMul(Tenths(3), min(One, FDiv(flagpole_gain, Pct(15)))),
                FMul(Tenths(4), FSub(One, FDiv(FAbs(consolidation_change), Pct(5))))),
                FMul(Tenths(3), position_in_range)))
    IN IF FLt(flagpole_gain, Pct(5)) THEN NotFound
       ELSE IF FLt(consolidation_change, Pct(-5)) \/ FGt(consolidation_change, Pct(2))
       THEN NotFound
       ELSE IF FEq(consolidation_range, Zero) THEN NotFound
       ELSE Scored(confidence)

detect_bear_flag(df) ==
    IF len(df) < 30 THEN NotFound ELSE
    LET closes == tail(Close(df), 30)
        first_half == SubSeq(closes, 1, 15)
        flagpole_drop == FDiv(FSub(first_half[1], Last(first_half)), first_half[1])
        second_half == SubSeq(closes, 16, 30)
        consolidation_change ==
            FDiv(FSub(Last(second_half), second_half[1]), second_half[1])
        recent_price == Last(closes)
        consolidation_high == max_of(second_half)
        consolidation_low == min_of(second_half)
        consolidation_range == FSub(consolidation_high, consolidation_low)
        position_in_range ==
            FDiv(FSub(consolidation_high, recent_price), consolidation_range)
        confidence ==
            min(One, FAdd(FAdd(
                FMul(Tenths(3), min(One, FDiv(flagpole_drop, Pct(15)))),
                FMul(Tenths(4), FSub(One, FDiv(FAbs(consolidation_change), Pct(5))))),
                FMul(Tenths(3), position_in_range)))
    IN IF FLt(flagpole_drop, Pct(5)) THEN NotFound
       ELSE IF FLt(consolidation_change, Pct(-2)) \/ FGt(consolidation_change, Pct(5))
       THEN NotFound
       ELSE IF FEq(consolidation_range, Zero) THEN NotFound
       ELSE Scored(confidence)

\* closes[a:b] with a, b counted from 1: the half-open slice
Slice(xs, a, b) == SubSeq(xs, a, b - 1)

detect_head_shoulders(df) ==
    IF len(df) < 40 THEN NotFound ELSE
    LET closes == tail(Close(df), 40)
        peaks == find_peaks(closes, 5)
    IN IF Len(peaks) < 3 THEN NotFound ELSE
    LET last_3_peaks == tail(peaks, 3)
        peak_values == [i \in 1..3 |-> closes[last_3_peaks[i]]]
        shoulder_diff ==
            FDiv(FAbs(FSub(peak_values[1], peak_values[3])), peak_values[1])
        troughs_between_peaks ==
            [i \in 1..2 |-> min_of(Slice(closes, last_3_peaks[i], last_3_peaks[i + 1]))]
        neckline == mean(troughs_between_peaks)
        current_price == Last(closes)
        below_neckline == FLt(current_price, neckline)
        head_prominence ==
            FDiv(FSub(peak_values[2], mean(<<peak_values[1], peak_values[3]>>)),
                 peak_values[2])
        confidence ==
            min(One, FAdd(FAdd(
                FMul(Tenths(4), FSub(One, FDiv(shoulder_diff, Pct(10)))),
                FMul(Tenths(3), min(One, FDiv(head_prominence, Pct(5))))),
                FMul(Tenths(3), IF below_neckline THEN One ELSE Tenths(5))))
    IN IF FLe(peak_values[2], peak_values[1]) \/ FLe(peak_values[2], peak_values[3])
       THEN NotFound
       ELSE IF FGt(shoulder_diff, Pct(10)) THEN NotFound
       ELSE Scored(confidence)

\* the confidence blend of detect_double_top and detect_double_bottom
DoubleBlend(peak_diff, trough_depth, price_from_peak) ==
    min(One, FAdd(FAdd(
        FMul(Tenths(4), FSub(One, FDiv(peak_diff, Pct(3)))),
        FMul(Tenths(3), min(One, FDiv(trough_depth, Pct(5))))),
        FMul(Tenths(3), min(One, FDiv(price_from_peak, Pct(5))))))

detect_double_top(df) ==
    IF len(df) < 30 THEN NotFound ELSE
    LET closes == tail(Close(df), 30)
        peaks == find_peaks(closes, 5)
    IN IF Len(peaks) < 2 THEN NotFound ELSE
    LET last_2_peaks == tail(peaks, 2)
        peak_values == [i \in 1..2 |-> closes[last_2_peaks[i]]]
        peak_diff == FDiv(FAbs(FSub(peak_values[1], peak_values[2])), peak_values[1])
        segment_between == Slice(closes, last_2_peaks[1], last_2_peaks[2])
        trough == min_of(segment_between)
        trough_depth == FDiv(FSub(max_of(peak_values), trough), max_of(peak_values))
        current_price == Last(closes)
        price_from_peak == FDiv(FSub(peak_values[2], current_price), peak_values[2])
    IN IF FGt(peak_diff, Pct(3)) THEN NotFound
       ELSE IF FLt(trough_depth, Pct(2)) THEN NotFound
       ELSE Scored(DoubleBlend(peak_diff, trough_depth, price_from_peak))

detect_double_bottom(df) ==
    IF len(df) < 30 THEN NotFound ELSE
    LET closes == tail(Close(df), 30)
        troughs == find_peaks(Negated(closes), 5)
    IN IF Len(troughs) < 2 THEN NotFound ELSE
    LET last_2_troughs == tail(troughs, 2)
        trough_values == [i \in 1..2 |-> closes[last_2_troughs[i]]]
        trough_diff ==
            FDiv(FAbs(FSub(trough_values[1], trough_values[2])), trough_values[1])
        segment_between == Slice(closes, last_2_troughs[1], last_2_troughs[2])
        peak == max_of(segment_between)
        peak_height == FDiv(FSub(peak, min_of(trough_values)), min_of(trough_values))
        current_price == Last(closes)
        price_from_trough ==
            FDiv(FSub(current_price, trough_values[2]), trough_values[2])
    IN IF FGt(trough_diff, Pct(3)) THEN NotFound
       ELSE IF FLt(peak_height, Pct(2)) THEN NotFound
       ELSE Scored(DoubleBlend(trough_diff, peak_height, price_from_trough))

detect_gap_up(df) ==
    IF len(df) < 2 THEN NotFound ELSE
    LET yesterday_high == High(df)[len(df) - 1]
        today_low == Low(df)[len(df)]
        gap_size == FDiv(FSub(today_low, yesterday_high), yesterday_high)
    IN IF FGt(today_low, yesterday_high) /\ FGe(gap_size, Pct(2))
       THEN Result(TRUE, min(One, FAdd(Tenths(5), FDiv(gap_size, Pct(10)))))
       ELSE NotFound

detect_gap_down(df) ==
    IF len(df) < 2 THEN NotFound ELSE
    LET yesterday_low == Low(df)[len(df) - 1]
        today_high == High(df)[len(df)]
        gap_size == FDiv(FSub(yesterday_low, today_high), yesterday_low)
    IN IF FLt(today_high, yesterday_low) /\ FGe(gap_size, Pct(2))
       THEN Result(TRUE, min(One, FAdd(Tenths(5), FDiv(gap_size, Pct(10)))))
       ELSE NotFound

\* a detect_volume_spike that lets a series of 20 bars through: the slice
\* df['Volume'].iloc[-21:-1] then holds the 19 bars before the last
detect_volume_spike_20(df) ==
    IF len(df) < 20 THEN NotFound ELSE
    LET current_volume == Last(Volume(df))
        prior == SubSeq(Volume(df), IF len(df) > 20 THEN len(df) - 20 ELSE 1,
                        len(df) - 1)
        avg_volume == mean(prior)
        volume_ratio == FDiv(current_volume, avg_volume)
    IN IF FEq(avg_volume, Zero) THEN NotFound
       ELSE IF FGe(volume_ratio, F(2))
       THEN Result(TRUE, min(One, FAdd(Tenths(4), FDiv(volume_ratio, F(10)))))
       ELSE NotFound

detect_volume_spike(df) ==
    IF len(df) < 21 THEN NotFound ELSE
    LET current_volume == Last(Volume(df))
        avg_volume == mean(SubSeq(Volume(df), len(df) - 20, len(df) - 1))
        volume_ratio == FDiv(current_volume, avg_volume)
    IN IF FEq(avg_volume, Zero) THEN NotFound
       ELSE IF FGe(volume_ratio, F(2))
       THEN Result(TRUE, min(One, FAdd(Tenths(4), FDiv(volume_ratio, F(10)))))
       ELSE NotFound

\* df['Close'].rolling(window=w).mean().iloc[i], i counted from 1
rolling_mean(xs, w, i) == mean(SubSeq(xs, i - w + 1, i))

detect_ma_crossover(df, bullish) ==
    IF len(df) < 51 THEN NotFound ELSE
    LET n == len(df)
        sma20_current == rolling_mean(Close(df), 20, n)
        sma20_previous == rolling_mean(Close(df), 20, n - 1)
        sma50_current == rolling_mean(Close(df), 50, n)
        sma50_previous == rolling_mean(Close(df), 50, n - 1)
    IN IF bullish
       THEN IF FLe(sma20_previous, sma50_previous) /\ FGt(sma20_current, sma50_current)
            THEN Result(TRUE, min(One, FAdd(Tenths(6),
                    FDiv(FDiv(FSub(sma20_current, sma50_current), sma50_current),
                         Pct(2)))))
            ELSE NotFound
       ELSE IF FGe(sma20_previous, sma50_previous) /\ FLt(sma20_current, sma50_current)
            THEN Result(TRUE, min(One, FAdd(Tenths(6),
                    FDiv(FDiv(FSub(sma50_current, sma20_current), sma50_current),
                         Pct(2)))))
            ELSE NotFound

\* detect_ma_crossover assigns df['SMA_20'] and df['SMA_50'] on the frame it
\* is given when the frame is long enough: the frame after the call
after_ma_crossover(df) ==
    IF len(df) < 51 THEN df
    ELSE [df EXCEPT !.cols = @ \cup {"SMA_20", "SMA_50"}]

PatternIds ==
    <<"bull_flag", "bear_flag", "head_shoulders", "double_top", "double_bottom",
      "gap_up", "gap_down", "volume_spike", "ma_crossover_bullish",
      "ma_crossover_bearish">>

\* the dispatch on `pattern` of scan_pattern and scan_pattern_stream; an
\* unknown pattern leaves pattern_found False and confidence 0
Detect(pattern, df) ==
    CASE pattern = "bull_flag" -> detect_bull_flag(df)
      [] pattern = "bear_flag" -> detect_bear_flag(df)
      [] pattern = "head_shoulders" -> detect_head_shoulders(df)
      [] pattern = "double_top" -> detect_double_top(df)
      [] pattern = "double_bottom" -> detect_double_bottom(df)
      [] pattern = "gap_up" -> detect_gap_up(df)
      [] pattern = "gap_down" -> detect_gap_down(df)
      [] pattern = "volume_spike" -> detect_volume_spike(df)
      [] pattern = "ma_crossover_bullish" -> detect_ma_crossover(df, TRUE)
      [] pattern = "ma_crossover_bearish" -> detect_ma_crossover(df, FALSE)
      [] OTHER -> NotFound

FrameAfter(pattern, df) ==
    IF pattern \in {"ma_crossover_bullish", "ma_crossover_bearish"}
    THEN after_ma_crossover(df) ELSE df

----------------------------------------------------------------------------
(* What the upstream may answer to a request for `symbols` *)

Item(symbol, date) ==
    [symbol |-> symbol, date |-> date, open |-> 100, high |-> 101,
     low |-> 99, close |-> 100, volume |-> 1000]

\* two records per requested symbol, newest first
RECURSIVE FullBody(_)
FullBody(symbols) ==
    IF symbols = <<>> THEN <<>>
    ELSE <<Item(Head(symbols), 2), Item(Head(symbols), 1)>>
         \o FullBody(Tail(symbols))

Json(has_data, data) == [has_data |-> has_data, data |-> data]
NoJson == Json(FALSE, <<>>)

\* an answer and the time the request took: requests.get returns a response
\* or raises Timeout (after the timeout) or another RequestException
Response(status, json, dur) ==
    [kind |-> "response", status |-> status, json |-> json, dur |-> dur]
Timeout == [kind |-> "timeout", dur |-> request_timeout * TicksPerSec]
NetworkError == [kind |-> "network_error", dur |-> 0]

Answer(kind, symbols) ==
    CASE kind = "bars" -> Response(200, Json(TRUE, FullBody(symbols)), SlowTicks)
      [] kind = "no_bars" -> Response(200, Json(TRUE, <<>>), 0)
      [] kind = "no_data_key" -> Response(200, NoJson, 0)
      [] kind = "429" -> Response(429, NoJson, 0)
      [] kind = "500" -> Response(500, NoJson, SlowTicks)
      [] kind = "timeout" -> Timeout
      [] kind = "network_error" -> NetworkError

AnswerKinds ==
    {"bars", "no_bars", "no_data_key", "429", "500", "timeout", "network_error"}

----------------------------------------------------------------------------
(* MarketstackClient: the operations *)

\* the record kept of the last operation: what was asked, the state it met
\* (t0, wire0, prev_op) and what it gave back
CallRecord(op, symbols, timeframe, period, request, key, ret) ==
    [n |-> call.n + 1, op |-> op, symbols |-> symbols,
     timeframe |-> timeframe, period |-> period, request |-> request,
     key |-> key, t0 |-> now, wire0 |-> Len(wire), prev_op |-> call.op,
     calls0 |-> api_calls_made, last0 |-> last_request_time, ret |-> ret]

WireRecord(symbols, r, key, start, end, resp) ==
    [endpoint |-> r.endpoint, symbols |-> SymbolsParam(symbols),
     interval |-> r.interval, date_from |-> r.date_from,
     date_to |-> r.date_to, limit |-> r.limit, key |-> key,
     start |-> start, end |-> end, resp |-> resp, by |-> call.n + 1]

\* self.last_request_time after a request that ended at `end`
LastRequestTimeAfter(resp, end) ==
    IF Responded(resp) THEN end ELSE last_request_time

\* self.api_calls_made after a request
ApiCallsAfter(resp) ==
    IF Responded(resp) THEN api_calls_made + 1 ELSE api_calls_made

\* a get_*_data_batch that caught the error of the request and stored and
\* returned an empty dict in its place
BatchResultSwallow(out) ==
    IF ~out.ok THEN [stored |-> TRUE, ret |-> Ok(EmptyPayload)]
    ELSE IF ~out.val.has_data THEN [stored |-> FALSE, ret |-> Ok(EmptyPayload)]
    ELSE [stored |-> TRUE, ret |-> Ok(ParseResponse(out.val))]

\* what get_*_data_batch does with the answer: [stored, ret], ret the
\* dict it built or the error it lets through
BatchResult(out) ==
    IF ~out.ok THEN [stored |-> FALSE, ret |-> out]
    ELSE IF ~out.val.has_data THEN [stored |-> FALSE, ret |-> Ok(EmptyPayload)]
    ELSE [stored |-> TRUE, ret |-> Ok(ParseResponse(out.val))]

\* the reference of the next object built
NewRef == Len(heap) + 1

\* `if cached_data:` in get_*_data_batch
CacheHit(cached_data) == Truthy(cached_data)

\* the same with a cache that drops its expired entries when it stores
AfterRequestEvicting(symbols, timeframe, period, r, cache_key, start, resp, res) ==
    LET end == start + resp.dur
        fresh == {k \in DOMAIN cache : end - cache_timestamps[k] < Ttl}
        kept == IF res.stored THEN fresh ELSE DOMAIN cache
    IN [now |-> end,
        heap |-> IF res.ret.ok THEN Append(heap, res.ret.val) ELSE heap,
        cache |-> IF res.stored
                  THEN DictPut([k \in kept |-> cache[k]], cache_key, NewRef)
                  ELSE cache,
        cache_timestamps |-> IF res.stored
                  THEN DictPut([k \in kept |-> cache_timestamps[k]],
                               cache_key, end)
                  ELSE cache_timestamps,
        api_calls_made |-> ApiCallsAfter(resp),
        last_request_time |-> LastRequestTimeAfter(resp, end),
        wire |-> Append(wire, WireRecord(symbols, r, cache_key, start,
                                         end, resp)),
        call |-> CallRecord("get_historical_data", symbols, timeframe,
                            period, r, cache_key,
                            IF res.ret.ok THEN Ok(NewRef) ELSE res.ret)]

\* get_*_data_batch past the cache: the request was sent at `start`, the
\* upstream answered resp, and res is what the answer is turned into
AfterRequest(symbols, timeframe, period, r, cache_key, start, resp, res) ==
    [now |-> start + resp.dur,
     heap |-> IF res.ret.ok THEN Append(heap, res.ret.val) ELSE heap,
     cache |-> IF res.stored
               THEN DictPut(cache, cache_key, NewRef) ELSE cache,
     cache_timestamps |-> IF res.stored
               THEN DictPut(cache_timestamps, cache_key, start + resp.dur)
               ELSE cache_timestamps,
     api_calls_made |-> ApiCallsAfter(resp),
     last_request_time |-> LastRequestTimeAfter(resp, start + resp.dur),
     wire |-> Append(wire, WireRecord(symbols, r, cache_key, start,
                                      start + resp.dur, resp)),
     call |-> CallRecord("get_historical_data", symbols, timeframe,
                         period, r, cache_key,
                         IF res.ret.ok THEN Ok(NewRef) ELSE res.ret)]

\* get_eod_data_batch / get_intraday_data_batch for the resolved request r
get_data_batch(symbols, timeframe, period, r, cache_key, cached_data, resp) ==
    IF CacheHit(cached_data)
    THEN [now |-> now, heap |-> heap, cache |-> cache,
          cache_timestamps |-> cache_timestamps,
          api_calls_made |-> api_calls_made,
          last_request_time |-> last_request_time, wire |-> wire,
          call |-> CallRecord("get_historical_data", symbols, timeframe,
                              period, r, cache_key, Ok(cached_data.val))]
    ELSE AfterRequest(symbols, timeframe, period, r, cache_key,
                      now + RateLimitWait(now), resp,
                      BatchResult(RequestOutcome(resp)))

Keyed(symbols, timeframe, period, r, cache_key, resp) ==
    get_data_batch(symbols, timeframe, period, r, cache_key,
                   _get_from_cache(cache_key, now), resp)

Resolved(symbols, timeframe, period, r, resp) ==
    Keyed(symbols, timeframe, period, r, CacheKey(symbols, r), resp)

\* the client after get_historical_data(symbols, timeframe, period) when the
\* upstream answers resp, should it be asked: every field of the client,
\* the clock, the objects built, the requests sent and the call record,
\* whose ret is the reference returned or the error raised
get_historical_data(symbols, timeframe, period, resp) ==
    Resolved(symbols, timeframe, period, Resolve(timeframe, period, now), resp)

\* the client and the clock become what the call left, the objects apart
Becomes(post) ==
    /\ now' = post.now
    /\ cache' = post.cache
    /\ cache_timestamps' = post.cache_timestamps
    /\ api_calls_made' = post.api_calls_made
    /\ last_request_time' = post.last_request_time
    /\ wire' = post.wire
    /\ call' = post.call

clear_cache_and_counters ==
    /\ cache' = EmptyDict
    /\ cache_timestamps' = EmptyDict
    /\ api_calls_made' = 0
    /\ last_request_time' = NoTime
    /\ UNCHANGED heap

clear_cache ==
    /\ cache' = EmptyDict
    /\ cache_timestamps' = EmptyDict
    /\ UNCHANGED <<heap, api_calls_made, last_request_time>>

get_usage_stats ==
    [total_api_calls |-> api_calls_made,
     cache_entries |-> Cardinality(DOMAIN cache)]

----------------------------------------------------------------------------
(* The client used directly, one call after another *)

\* the calls made: [symbols, timeframe, period]
Request(symbols, timeframe, period) ==
    [symbols |-> symbols, timeframe |-> timeframe, period |-> period]
Requests ==
    {Request(<<"AAPL">>, "1h", "5d"),
     Request(<<"AAPL", "MSFT">>, "1d", "5d"),
     Request(<<"MSFT", "AAPL">>, "1d", "5d")}
StartTime == DayTicks

\* Two environments.  In the first the cache is exercised: every call, the
\* answers that are or are not stored and one failure, delays below and at
\* the ttl, clear_cache.  In the second the rate limiter is: two
\* fingerprints, every answer, delays below and at the rate-limit interval.
CacheEnv ==
    [requests |-> Requests,
     answers |-> {"bars", "no_bars", "no_data_key", "500"},
     delays |-> {1, Ttl},
     horizon |-> 3 * Ttl,
     fetches |-> MaxFetches,
     clear |-> TRUE]
RateEnv ==
    [requests |-> {Request(<<"AAPL">>, "1h", "5d"),
                   Request(<<"AAPL", "MSFT">>, "1d", "5d")},
     answers |-> AnswerKinds,
     delays |-> {1, TicksPerSec},
     horizon |-> 3 * Ttl,
     fetches |-> MaxFetches,
     clear |-> FALSE]
Envs == {CacheEnv, RateEnv}

NoCall ==
    [n |-> 0, op |-> "none", symbols |-> <<>>, timeframe |-> "", period |-> "",
     request |-> Resolve("1d", "1d", 0), key |-> CacheKey(<<>>, Resolve("1d", "1d", 0)),
     t0 |-> 0, wire0 |-> 0, prev_op |-> "none", calls0 |-> 0, last0 |-> NoTime,
     ret |-> Raise("")]

NoFrame == DataFrame(<<>>)
NoDetection == [pattern |-> "", result |-> NotFound]
NoClassifier == frame = NoFrame /\ detected = NoDetection

NoResponse == [status |-> 0]
IdleHandler ==
    [kind |-> "none", pc |-> "idle", pattern |-> "", timeframe |-> "",
     period |-> "", ticker |-> "", data_dict |-> 0, idx |-> 0,
     results |-> <<>>, events |-> <<>>, born |-> 0, fetch |-> NoCall,
     response |-> NoResponse]
NoScans == scans = [h \in 1..MaxScans |-> IdleHandler]

ClientInit ==
    /\ now = StartTime
    /\ heap = <<>>
    /\ cache = EmptyDict
    /\ cache_timestamps = EmptyDict
    /\ api_calls_made = 0
    /\ last_request_time = NoTime
    /\ wire = <<>>
    /\ call = NoCall
    /\ cleared_at = 0
    /\ clears = 0
    /\ ticked = FALSE
    /\ argsort_ties = "last"

\* a call of the client by a caller that leaves the objects alone
Returns(post) == Becomes(post) /\ heap' = post.heap

Fetch ==
    /\ call.n - clears < env.fetches
    /\ \E req \in env.requests : \E kind \in env.answers :
            Returns(get_historical_data(req.symbols, req.timeframe,
                        req.period, Answer(kind, req.symbols)))
    /\ ticked' = FALSE
    /\ UNCHANGED <<cleared_at, clears, env, argsort_ties, detectVars, scanVars>>

ClearCache ==
    /\ env.clear
    /\ clears < MaxClears
    /\ clear_cache
    /\ cleared_at' = Len(wire)
    /\ clears' = clears + 1
    /\ call' = [CallRecord("clear_cache", <<>>, "", "", NoCall.request,
                           NoCall.key, Raise("")) EXCEPT !.t0 = 0]
    /\ UNCHANGED <<now, wire, ticked, env, argsort_ties, detectVars, scanVars>>

\* time passes between two operations
Tick ==
    /\ ~ticked
    /\ \E d \in env.delays :
          /\ now + d <= StartTime + env.horizon
          /\ now' = now + d
    /\ ticked' = TRUE
    /\ UNCHANGED <<heap, cache, cache_timestamps, api_calls_made,
                   last_request_time, wire, call, cleared_at, clears, env,
                   argsort_ties, detectVars, scanVars>>

vars == <<clientVars, detectVars, scanVars>>

Init == ClientInit /\ env \in Envs /\ NoClassifier /\ NoScans

Next == Fetch \/ ClearCache \/ Tick

Spec == Init /\ [][Next]_vars

\* A third environment, for what the cache keeps: two fingerprints, one
\* call more than in the others so that an entry can expire, be fetched
\* again and leave the entry of the other fingerprint behind; answers that
\* are stored, that are not, and a failure; delays below and at the ttl.
StoreEnv ==
    [requests |-> {Request(<<"AAPL">>, "1h", "5d"),
                   Request(<<"AAPL", "MSFT">>, "1d", "5d")},
     answers |-> {"bars", "no_bars", "500"},
     delays |-> {1, Ttl},
     horizon |-> 3 * Ttl,
     fetches |-> MaxFetches + 1,
     clear |-> TRUE]

StoreInit == ClientInit /\ env = StoreEnv /\ NoClassifier /\ NoScans

SpecStore == StoreInit /\ [][Next]_vars

\* A fourth environment, for the request a call resolves to: one call, of
\* every timeframe and period the endpoints document and one of each that
\* they do not (the query parameters are passed on unvalidated).
Timeframes == {"1d", "1h", "30m", "15m", "5m", "1m", "4h"}
Periods == {"1d", "5d", "1mo", "3mo", "6mo", "1y", "2y", "max"}
LimitEnv ==
    [requests |-> {Request(<<"AAPL">>, timeframe, period) :
                      timeframe \in Timeframes, period \in Periods},
     answers |-> {"bars", "500"},
     delays |-> {1, Ttl},
     horizon |-> 3 * Ttl,
     fetches |-> 1,
     clear |-> TRUE]

LimitInit == ClientInit /\ env = LimitEnv /\ NoClassifier /\ NoScans

SpecLimit == LimitInit /\ [][Next]_vars

\* A fifth environment, for what a response is parsed into: one call for
\* two symbols, answered 200 with any list of up to MaxRecords records of
\* those symbols on two dates, in any order, the same symbol and date
\* possibly more than once.  The close of a record tells its symbol.
MaxRecords == 3
RecordOf(symbol, date) == [Item(symbol, date) EXCEPT !.close = 100 + Rank(symbol)]
Records == {RecordOf(symbol, date) : symbol \in {"AAPL", "MSFT"}, date \in {1, 2}}
Bodies == UNION {[1..n -> Records] : n \in 0..MaxRecords}
RecordsEnv ==
    [requests |-> {Request(<<"AAPL", "MSFT">>, "1d", "5d"),
                   Request(<<"AAPL", "MSFT">>, "1h", "5d")},
     bodies |-> Bodies,
     delays |-> {1, Ttl},
     horizon |-> 3 * Ttl,
     fetches |-> 1,
     clear |-> TRUE]

\* a call of the client that the upstream, should it be asked, answers 200
\* with one of the bodies
FetchRecords ==
    /\ call.n - clears < env.fetches
    /\ \E req \in env.requests : \E body \in env.bodies :
            Returns(get_historical_data(req.symbols, req.timeframe,
                        req.period, Response(200, Json(TRUE, body), 0)))
    /\ ticked' = FALSE
    /\ UNCHANGED <<cleared_at, clears, env, argsort_ties, detectVars, scanVars>>

RecordsInit == ClientInit /\ env = RecordsEnv /\ NoClassifier /\ NoScans

RecordsNext == FetchRecords \/ ClearCache \/ Tick

SpecRecords == RecordsInit /\ [][RecordsNext]_vars

----------------------------------------------------------------------------
(* The classifiers applied to series of bars *)

Run(v, n) == [i \in 1..n |-> v]

\* the closes of a series: a floor with three spikes and a last close,
\* after `pad` more bars at the floor
ShapeCloses(s) ==
    Run(s.floor1, s.pad + 4) \o <<s.p1>> \o Run(s.floor1, 8) \o <<s.p2>>
    \o Run(s.floor2, 8) \o <<s.p3>> \o Run(s.floor2, 6) \o <<s.last>>

\* bars around the closes, one a day, the last with volume last_volume
ShapeRows(s) ==
    LET closes == ShapeCloses(s)
    IN [i \in 1..Len(closes) |->
            [Date |-> i, Open |-> closes[i], High |-> closes[i] + 1,
             Low |-> closes[i] - 1, Close |-> closes[i],
             Volume |-> IF i = Len(closes) THEN s.last_volume ELSE 1000]]

Shapes ==
    [floor1 : {100}, floor2 : {92, 100, 110}, p1 : {90, 102, 110},
     p2 : {90, 103, 120}, p3 : {92, 102, 112}, last : {70, 92, 100, 108, 130},
     pad : {0, 10, 21}, last_volume : {1000, 3000}]

DetectInit ==
    /\ ClientInit
    /\ env = RateEnv
    /\ argsort_ties \in {"last", "first"}
    /\ \E s \in Shapes : frame = DataFrame(ShapeRows(s))
    /\ detected = NoDetection
    /\ NoScans

\* one classifier called on frame, as the scan handlers call it
Classify ==
    /\ \E pattern \in Range(PatternIds) :
            /\ detected' = [pattern |-> pattern, result |-> Detect(pattern, frame)]
            /\ frame' = FrameAfter(pattern, frame)
    /\ UNCHANGED <<clientVars, scanVars>>

DetectNext == Classify

SpecDetect == DetectInit /\ [][DetectNext]_vars

----------------------------------------------------------------------------
(* The classifiers applied to short and to degenerate series: every length
   around the classifiers' minimum lengths, bars whose high and low are
   any two values, zero prices and zero volumes *)

Lengths == {0, 1, 2, 3, 20, 21, 29, 30, 39, 40, 50, 51}

\* the high and low of the bar before the last: around 100, crossed, zero
YesterdayHighLows == {<<101, 99>>, <<100, 110>>, <<0, 0>>}

\* the high and low of the last bar: around 100, above it, below it
TodayHighLows == {<<101, 99>>, <<106, 104>>, <<97, 95>>}

\* n bars: flat at 100 but for the first close, the bar before the last
\* and the last bar
BarsRows(b) ==
    [i \in 1..b.n |->
        IF i = b.n
        THEN [Date |-> i, Open |-> 100, High |-> b.today[1], Low |-> b.today[2],
              Close |-> b.last, Volume |-> b.last_volume]
        ELSE IF i = b.n - 1
        THEN [Date |-> i, Open |-> 100, High |-> b.yesterday[1],
              Low |-> b.yesterday[2], Close |-> 100, Volume |-> b.volume]
        ELSE [Date |-> i, Open |-> 100, High |-> 101, Low |-> 99,
              Close |-> IF i = 1 THEN b.first ELSE 100, Volume |-> b.volume]]

BarsShapes ==
    [n : Lengths, first : {0, 100}, yesterday : YesterdayHighLows,
     today : TodayHighLows,
     last : {100, 101}, volume : {0, 1000}, last_volume : {1000, 3000}]

BarsInit ==
    /\ ClientInit
    /\ env = RateEnv
    /\ argsort_ties = "last"
    /\ \E b \in BarsShapes : frame = DataFrame(BarsRows(b))
    /\ detected = NoDetection
    /\ NoScans

SpecBars == BarsInit /\ [][DetectNext]_vars

----------------------------------------------------------------------------
(* The classifiers applied to series with two tops: the second and third
   spikes at or near the same level over floors more or less deep, and a
   last close below, at and above the last spike *)

TopShapes ==
    [floor1 : {90, 100}, floor2 : {90, 95, 99}, p1 : {90}, p2 : {100, 103, 110},
     p3 : {100}, last : {90, 95, 99, 100, 101, 104}, pad : {0, 10},
     last_volume : {1000}]

TopsInit ==
    /\ ClientInit
    /\ env = RateEnv
    /\ argsort_ties \in {"last", "first"}
    /\ \E s \in TopShapes : frame = DataFrame(ShapeRows(s))
    /\ detected = NoDetection
    /\ NoScans

SpecTops == TopsInit /\ [][DetectNext]_vars

----------------------------------------------------------------------------
(* main.py: the scan handlers.  Every endpoint is an `async def` that calls
   the client synchronously, so the handlers run on one event loop: a
   handler runs alone from one `yield`/`await` to the next, and a call of
   the client, its rate-limit sleep and its HTTP request included, lets no
   other handler run. *)

\* NASDAQ_TICKERS, cut down to three
NASDAQ_TICKERS == <<"AAPL", "MSFT", "NVDA">>

\* what the upstream holds: 30 bars of AAPL, ending on a day that gaps up on
\* three times the volume, and 2 bars of any other symbol
HistoryShape ==
    [floor1 |-> 100, floor2 |-> 100, p1 |-> 102, p2 |-> 90, p3 |-> 102,
     last |-> 130, pad |-> 0, last_volume |-> 3000]

ItemOf(symbol, row) ==
    [symbol |-> symbol, date |-> row.Date, open |-> row.Open,
     high |-> row.High, low |-> row.Low, close |-> row.Close,
     volume |-> row.Volume]

\* newest first, as the API lists them
HistoryOf(symbol) ==
    IF symbol = "AAPL"
    THEN LET rows == ShapeRows(HistoryShape)
         IN [i \in 1..Len(rows) |-> ItemOf(symbol, rows[Len(rows) + 1 - i])]
    ELSE <<Item(symbol, 2), Item(symbol, 1)>>

RECURSIVE HistoryBody(_)
HistoryBody(symbols) ==
    IF symbols = <<>> THEN <<>>
    ELSE HistoryOf(Head(symbols)) \o HistoryBody(Tail(symbols))

\* a longer history: 51 bars of AAPL, whose 20-bar average crosses above
\* its 50-bar average on the last day, and 2 bars of any other symbol
LongHistoryShape == [HistoryShape EXCEPT !.pad = 21]

LongHistoryOf(symbol) ==
    IF symbol = "AAPL"
    THEN LET rows == ShapeRows(LongHistoryShape)
         IN [i \in 1..Len(rows) |-> ItemOf(symbol, rows[Len(rows) + 1 - i])]
    ELSE <<Item(symbol, 2), Item(symbol, 1)>>

RECURSIVE LongHistoryBody(_)
LongHistoryBody(symbols) ==
    IF symbols = <<>> THEN <<>>
    ELSE LongHistoryOf(Head(symbols)) \o LongHistoryBody(Tail(symbols))

\* the upstream's book of a run: for each symbol it lists, in the order it
\* lists them, the shape of the symbol's last day after 19 flat days.  The
\* last day gaps up by 3 points or by 5, and its volume may be null.
BookDays == 20

BookLast(shape) ==
    CASE shape = "gap3" -> [High |-> 106, Low |-> 104, Close |-> 105,
                            Volume |-> 1000]
      [] shape = "gap5" -> [High |-> 108, Low |-> 106, Close |-> 107,
                            Volume |-> 1000]
      [] shape = "null" -> [High |-> 106, Low |-> 104, Close |-> 105,
                            Volume |-> Null]
      [] shape = "down3" -> [High |-> 96, Low |-> 94, Close |-> 95,
                             Volume |-> 1000]

BookItem(symbol, shape, day) ==
    IF day = BookDays
    THEN [symbol |-> symbol, date |-> day, open |-> 100,
          high |-> BookLast(shape).High, low |-> BookLast(shape).Low,
          close |-> BookLast(shape).Close, volume |-> BookLast(shape).Volume]
    ELSE [symbol |-> symbol, date |-> day, open |-> 100, high |-> 101,
          low |-> 99, close |-> 100, volume |-> 1000]

\* newest first, as the API lists them
BookOf(entry) ==
    [i \in 1..BookDays |-> BookItem(entry.symbol, entry.shape, BookDays + 1 - i)]

RECURSIVE BookBody(_, _)
BookBody(book, symbols) ==
    IF book = <<>> THEN <<>>
    ELSE IF Head(book).symbol \in Range(symbols)
    THEN BookOf(Head(book)) \o BookBody(Tail(book), symbols)
    ELSE BookBody(Tail(book), symbols)

\* a book whose entries say how many of the symbol's days the upstream
\* holds, the newest ones
RECURSIVE ShortBookBody(_, _)
ShortBookBody(book, symbols) ==
    IF book = <<>> THEN <<>>
    ELSE IF Head(book).symbol \in Range(symbols)
    THEN SubSeq(BookOf(Head(book)), 1, Head(book).days)
         \o ShortBookBody(Tail(book), symbols)
    ELSE ShortBookBody(Tail(book), symbols)

ScanAnswer(kind, symbols) ==
    IF kind = "history"
    THEN Response(200, Json(TRUE, HistoryBody(symbols)), SlowTicks)
    ELSE IF kind = "long_history"
    THEN Response(200, Json(TRUE, LongHistoryBody(symbols)), SlowTicks)
    ELSE IF kind = "book"
    THEN Response(200, Json(TRUE, BookBody(env.book, symbols)), SlowTicks)
    ELSE IF kind = "short_book"
    THEN Response(200, Json(TRUE, ShortBookBody(env.book, symbols)), SlowTicks)
    ELSE Answer(kind, symbols)

\* round(x * 100), halves to the even neighbour: round(x, 2) in hundredths
round2(x) ==
    LET n == x[1] * 100
        q == n \div x[2]
        twice == 2 * (n % x[2])
    IN IF twice < x[2] THEN q
       ELSE IF twice > x[2] THEN q + 1
       ELSE IF q % 2 = 0 THEN q ELSE q + 1

\* the dict appended to results for a ticker whose pattern was found
MatchResult(ticker, df, confidence) ==
    LET current_price == Last(Close(df))
        previous_price == IF len(df) > 1 THEN Close(df)[len(df) - 1]
                          ELSE current_price
        price_change ==
            IF ~FEq(previous_price, Zero)
            THEN FMul(FDiv(FSub(current_price, previous_price), previous_price),
                      F(100))
            ELSE Zero
    IN [ticker |-> ticker,
        confidence |-> round2(FMul(confidence, F(100))),
        current_price |-> round2(current_price),
        price_change |-> round2(price_change),
        volume |-> df.rows[len(df)].Volume]

\* int(df['Volume'].iloc[-1]) raises ValueError when the last volume is nan
MatchRaises(df) == df.rows[len(df)].Volume = Null
IntOfNan == "cannot convert float NaN to integer"

\* results.sort(key=lambda x: x['confidence'], reverse=True): stable
RECURSIVE InsertByConfidence(_, _)
InsertByConfidence(sorted_results, r) ==
    IF sorted_results = <<>> THEN <<r>>
    ELSE IF Head(sorted_results).confidence < r.confidence
    THEN <<r>> \o sorted_results
    ELSE <<Head(sorted_results)>> \o InsertByConfidence(Tail(sorted_results), r)

RECURSIVE SortResults(_)
SortResults(results) ==
    IF results = <<>> THEN <<>>
    ELSE InsertByConfidence(SortResults(SubSeq(results, 1, Len(results) - 1)),
                            results[Len(results)])

\* the same test without the length
InsufficientEmpty(df) == len(df) = 0

\* `if df.empty or len(df) < 20: continue`
Insufficient(df) == len(df) = 0 \/ len(df) < 20

\* the events of the stream
StatusEvent(progress) == [type |-> "status", progress |-> progress]
LoadedEvent(stocks) == [type |-> "status", progress |-> 30, stocks |-> stocks]
ScanningEvent(ticker, progress, current, total) ==
    [type |-> "scanning", ticker |-> ticker, progress |-> progress,
     current |-> current, total |-> total]
MatchEvent(result) == [type |-> "match", result |-> result]
ErrorEvent(error) == [type |-> "error", error |-> error]
TickerErrorEvent(ticker, error) ==
    [type |-> "error", ticker |-> ticker, error |-> error]

\* json.dumps({{'type': 'complete', ...}}) builds a set holding a dict: it
\* raises TypeError, which the outer handler turns into an error event
CompleteRaises == "unhashable type: 'dict'"

\* the end of the stream's loop: sort, usage, the completion event
StreamEnd(sc) ==
    [sc EXCEPT !.results = SortResults(@),
               !.events = Append(@, ErrorEvent(CompleteRaises)),
               !.pc = "done"]

\* the first ticker at or after position i of the dict with enough bars,
\* 0 if there is none
RECURSIVE NextSufficient(_, _)
NextSufficient(d, i) ==
    IF i > Len(d.order) THEN 0
    ELSE IF Insufficient(d.at[d.order[i]]) THEN NextSufficient(d, i + 1)
    ELSE i

\* the same loop with a progress that is not scaled by the number of tickers
StreamLoopUnscaled(sc, hp) ==
    LET d == hp[sc.data_dict]
        total_tickers == Len(d.order)
        i == NextSufficient(d, sc.idx + 1)
    IN IF i = 0 THEN StreamEnd(sc)
       ELSE [sc EXCEPT
                !.idx = i,
                !.pc = "scanning",
                !.events = Append(@, ScanningEvent(d.order[i],
                              30 + ((i - 1) * 60), i, total_tickers))]

\* the stream's loop from the ticker after sc.idx up to its next yield,
\* the objects being hp
StreamLoop(sc, hp) ==
    LET d == hp[sc.data_dict]
        total_tickers == Len(d.order)
        i == NextSufficient(d, sc.idx + 1)
    IN IF i = 0 THEN StreamEnd(sc)
       ELSE [sc EXCEPT
                !.idx = i,
                !.pc = "scanning",
                !.events = Append(@, ScanningEvent(d.order[i],
                              30 + (((i - 1) * 60) \div total_tickers),
                              i, total_tickers))]

scanFrame == <<cleared_at, clears, env, argsort_ties, detectVars>>
clientFrame == <<now, heap, cache, cache_timestamps, api_calls_made,
                 last_request_time, wire, call>>

\* the requests are taken in the order of their numbers, and a third is
\* taken when the first of the two before it is over: two scans overlap
MayStart(h) ==
    /\ scans[h].kind = "none"
    /\ IF h = 1 THEN TRUE ELSE scans[h - 1].kind # "none"
    /\ IF h <= 2 THEN TRUE ELSE scans[h - 2].pc = "done"

\* scan_pattern_stream, up to the first yield
StreamStart(h) ==
    /\ MayStart(h)
    /\ \E q \in env.scans :
          scans' = [scans EXCEPT ![h] =
                        [IdleHandler EXCEPT !.kind = "stream",
                                            !.pc = "status0",
                                            !.pattern = q.pattern,
                                            !.timeframe = q.timeframe,
                                            !.period = q.period,
                                            !.born = call.n,
                                            !.events = <<StatusEvent(0)>>]]
    /\ ticked' = FALSE
    /\ UNCHANGED <<clientFrame, scanFrame>>

\* from the first yield to the second
StreamStatus(h) ==
    /\ scans[h].pc = "status0"
    /\ scans' = [scans EXCEPT ![h].events = Append(@, StatusEvent(10)),
                              ![h].pc = "status10"]
    /\ ticked' = FALSE
    /\ UNCHANGED <<clientFrame, scanFrame>>

\* the handler after the batch fetch: the yield after it, or the error event
StreamFetched(sc, post) ==
    IF post.call.ret.ok
    THEN [sc EXCEPT
            !.fetch = post.call,
            !.data_dict = post.call.ret.val,
            !.events = Append(@,
                LoadedEvent(Len(post.heap[post.call.ret.val].order))),
            !.pc = "loaded"]
    ELSE [sc EXCEPT
            !.fetch = post.call,
            !.events = Append(@, ErrorEvent(post.call.ret.err)),
            !.pc = "done"]

StreamFetchReturns(h, post) ==
    /\ Returns(post)
    /\ scans' = [scans EXCEPT ![h] = StreamFetched(@, post)]

StreamFetch(h) ==
    /\ scans[h].pc = "status10"
    /\ \E kind \in env.answers :
          StreamFetchReturns(h,
              get_historical_data(NASDAQ_TICKERS, scans[h].timeframe,
                  scans[h].period, ScanAnswer(kind, NASDAQ_TICKERS)))
    /\ ticked' = FALSE
    /\ UNCHANGED scanFrame

\* after the `Data loaded`, a match or a ticker's error event: on to the
\* next ticker
StreamResume(h) ==
    /\ scans[h].pc \in {"loaded", "matched", "skipped"}
    /\ scans' = [scans EXCEPT ![h] = StreamLoop(@, heap)]
    /\ ticked' = FALSE
    /\ UNCHANGED <<clientFrame, scanFrame>>

\* the handler after the classifier returned `found` on the ticker's
\* frame, the objects being hp: the match event, the error event of a
\* ticker whose result could not be built, or the loop again
StreamDetected(sc, ticker, found, hp) ==
    IF found.found /\ MatchRaises(hp[sc.data_dict].at[ticker])
    THEN [sc EXCEPT
            !.events = Append(@, TickerErrorEvent(ticker, IntOfNan)),
            !.pc = "skipped"]
    ELSE IF found.found
    THEN [sc EXCEPT
            !.results = Append(@, MatchResult(ticker, hp[sc.data_dict].at[ticker],
                                            found.confidence)),
            !.events = Append(@, MatchEvent(
                            MatchResult(ticker, hp[sc.data_dict].at[ticker],
                                        found.confidence))),
            !.pc = "matched"]
    ELSE StreamLoop(sc, hp)

StreamDetectOn(h, ticker, hp) ==
    /\ heap' = hp
    /\ scans' = [scans EXCEPT ![h] =
            StreamDetected(@, ticker,
                Detect(scans[h].pattern, heap[scans[h].data_dict].at[ticker]), hp)]

\* after a scanning event: the classifier on the ticker's frame, which is
\* the frame the cache holds
StreamDetect(h) ==
    /\ scans[h].pc = "scanning"
    /\ StreamDetectOn(h, heap[scans[h].data_dict].order[scans[h].idx],
            [heap EXCEPT ![scans[h].data_dict].at[
                            heap[scans[h].data_dict].order[scans[h].idx]] =
                                FrameAfter(scans[h].pattern, @)])
    /\ ticked' = FALSE
    /\ UNCHANGED <<now, cache, cache_timestamps, api_calls_made,
                   last_request_time, wire, call, scanFrame>>

\* scan_pattern's step on one ticker with enough bars, the classifier
\* having returned `found` and left the frame as `after`; a ticker whose
\* result cannot be built is counted, printed and skipped
RECURSIVE ScanLoop(_, _, _, _)
ScanTicker(pattern, d, i, results, found, after) ==
    ScanLoop(pattern, [d EXCEPT !.at[d.order[i]] = after], i + 1,
        IF found.found /\ ~MatchRaises(after)
        THEN Append(results, MatchResult(d.order[i], after, found.confidence))
        ELSE results)

\* the loop of scan_pattern over the tickers from position i: the dict
\* with the frames as the classifiers left them, and the results
ScanLoop(pattern, d, i, results) ==
    IF i > Len(d.order) THEN [data_dict |-> d, results |-> results]
    ELSE IF Insufficient(d.at[d.order[i]])
    THEN ScanLoop(pattern, d, i + 1, results)
    ELSE ScanTicker(pattern, d, i, results, Detect(pattern, d.at[d.order[i]]),
                    FrameAfter(pattern, d.at[d.order[i]]))

ScanHandler(q, post) ==
    [IdleHandler EXCEPT !.kind = "scan", !.pc = "done",
                        !.pattern = q.pattern,
                        !.timeframe = q.timeframe,
                        !.period = q.period,
                        !.born = call.n,
                        !.fetch = post.call]

\* scan_pattern past its loop, which left `out`: the sort and the response
ScanReturns(h, q, post, out, results) ==
    /\ heap' = [post.heap EXCEPT ![post.call.ret.val] = out.data_dict]
    /\ scans' = [scans EXCEPT ![h] =
          [ScanHandler(q, post) EXCEPT
             !.data_dict = post.call.ret.val,
             !.results = results,
             !.response =
                [status |-> 200, matches |-> results,
                 total_scanned |-> Len(NASDAQ_TICKERS),
                 total_matches |-> Len(results),
                 api_calls_used |-> post.api_calls_made]]]

\* scan_pattern's `except Exception`: HTTPException(500)
ScanRaises(h, q, post) ==
    /\ heap' = post.heap
    /\ scans' = [scans EXCEPT ![h] =
          [ScanHandler(q, post) EXCEPT
             !.response =
                [status |-> 500,
                 detail |-> <<"Error scanning: ", post.call.ret.err>>]]]

ScanLooped(h, q, post, out) ==
    ScanReturns(h, q, post, out, SortResults(out.results))

ScanFetched(h, q, post) ==
    /\ Becomes(post)
    /\ IF post.call.ret.ok
       THEN ScanLooped(h, q, post,
                ScanLoop(q.pattern, post.heap[post.call.ret.val], 1, <<>>))
       ELSE ScanRaises(h, q, post)

\* scan_pattern: it awaits nothing, so it runs from start to end alone
scan_pattern(h) ==
    /\ MayStart(h)
    /\ \E q \in env.scans : \E kind \in env.answers :
          ScanFetched(h, q,
              get_historical_data(NASDAQ_TICKERS, q.timeframe, q.period,
                                  ScanAnswer(kind, NASDAQ_TICKERS)))
    /\ ticked' = FALSE
    /\ UNCHANGED scanFrame

\* get_chart past its fetch: the 404 it raises for a ticker without bars,
\* which its own `except Exception` turns into a 500 like any other error;
\* else the three indicator columns it assigns on the ticker's frame, which
\* is the frame the cache holds, and the figure
ChartColumns == {"SMA_20", "SMA_50", "Volume_MA"}

ChartHandler(ticker, q, post) ==
    [IdleHandler EXCEPT !.kind = "chart", !.pc = "done",
                        !.ticker = ticker,
                        !.timeframe = q.timeframe,
                        !.period = q.period,
                        !.born = call.n,
                        !.fetch = post.call]

ChartRaises(h, ticker, q, post, detail) ==
    /\ heap' = post.heap
    /\ scans' = [scans EXCEPT ![h] =
          [ChartHandler(ticker, q, post) EXCEPT
             !.response = [status |-> 500, detail |-> detail]]]

ChartReturns(h, ticker, q, post) ==
    /\ heap' = [post.heap EXCEPT
                  ![post.call.ret.val].at[ticker].cols = @ \cup ChartColumns]
    /\ scans' = [scans EXCEPT ![h] =
          [ChartHandler(ticker, q, post) EXCEPT
             !.data_dict = post.call.ret.val,
             !.response = [status |-> 200, figure |-> ticker]]]

ChartFetched(h, ticker, q, post) ==
    /\ Becomes(post)
    /\ IF ~post.call.ret.ok
       THEN ChartRaises(h, ticker, q, post, post.call.ret.err)
       ELSE IF \/ ticker \notin DOMAIN post.heap[post.call.ret.val].at
               \/ len(post.heap[post.call.ret.val].at[ticker]) = 0
       THEN ChartRaises(h, ticker, q, post, "404: No data found for this ticker")
       ELSE ChartReturns(h, ticker, q, post)

\* get_chart: it awaits nothing, so it runs from start to end alone
get_chart(h) ==
    /\ MayStart(h)
    /\ \E ticker \in env.charts : \E q \in env.scans : \E kind \in env.answers :
          ChartFetched(h, ticker, q,
              get_historical_data(<<ticker>>, q.timeframe, q.period,
                                  ScanAnswer(kind, <<ticker>>)))
    /\ ticked' = FALSE
    /\ UNCHANGED scanFrame

\* the scans asked for, the answers of the upstream (its history, or the
\* one other answer of the run), the time between steps
ScanEnv(other) ==
    [requests |-> {},
     answers |-> {"history", other},
     delays |-> {TicksPerSec},
     horizon |-> TicksPerSec,
     clear |-> FALSE,
     scans |-> {[pattern |-> "volume_spike", timeframe |-> "1d", period |-> "1mo"],
                [pattern |-> "double_top", timeframe |-> "1h",
                 period |-> "5d"]}]

ScanEnvs ==
    {ScanEnv(other) :
        other \in {"no_bars", "429", "500", "timeout", "network_error"}}

ScanInit == ClientInit /\ env \in ScanEnvs /\ NoClassifier /\ NoScans

ScanNext ==
    \/ \E h \in 1..MaxScans :
          \/ StreamStart(h)
          \/ StreamStatus(h)
          \/ StreamFetch(h)
          \/ StreamResume(h)
          \/ StreamDetect(h)
          \/ scan_pattern(h)
    \/ Tick

SpecScan == ScanInit /\ [][ScanNext]_vars

----------------------------------------------------------------------------
(* Gap-up scans, streamed or not, over the books the upstream may hold:
   the symbols in alphabetical order or in the reverse, a symbol missing, a
   symbol whose last volume is null *)

Entry(symbol, shape) == [symbol |-> symbol, shape |-> shape]

RECURSIVE Listed(_)
Listed(book) ==
    IF book = <<>> THEN <<>>
    ELSE IF Head(book).shape = "none" THEN Listed(Tail(book))
    ELSE <<Head(book)>> \o Listed(Tail(book))

Books ==
    {Listed(IF reverse THEN <<Entry("NVDA", c), Entry("MSFT", b), Entry("AAPL", a)>>
            ELSE <<Entry("AAPL", a), Entry("MSFT", b), Entry("NVDA", c)>>) :
        a \in {"gap3", "gap5"}, b \in {"gap3", "null", "none"},
        c \in {"gap3", "gap5"}, reverse \in BOOLEAN}

ResultsEnv(book) ==
    [requests |-> {},
     answers |-> {"book"},
     delays |-> {TicksPerSec},
     horizon |-> TicksPerSec,
     clear |-> FALSE,
     book |-> book,
     scans |-> {[pattern |-> "gap_up", timeframe |-> "1d", period |-> "1mo"]}]

ResultsInit ==
    /\ ClientInit
    /\ \E book \in Books : env = ResultsEnv(book)
    /\ NoClassifier
    /\ NoScans

SpecResults == ResultsInit /\ [][ScanNext]_vars

\* The scans over short series: the upstream holds 2, 19 or 20 days of a
\* symbol, the last of them a gap up or down, and the scan is for any of
\* the ten patterns
Held(symbol, shape, days) == [symbol |-> symbol, shape |-> shape, days |-> days]

ShortBooks ==
    {<<Held("AAPL", "gap3", 19), Held("MSFT", "gap3", 20), Held("NVDA", "gap5", 2)>>,
     <<Held("AAPL", "down3", 20), Held("MSFT", "down3", 19), Held("NVDA", "gap5", 19)>>,
     <<Held("AAPL", "gap3", 19), Held("NVDA", "down3", 2)>>}

ShortEnv(book, pattern) ==
    [requests |-> {},
     answers |-> {"short_book"},
     delays |-> {TicksPerSec},
     horizon |-> TicksPerSec,
     clear |-> FALSE,
     book |-> book,
     scans |-> {[pattern |-> pattern, timeframe |-> "1d", period |-> "1mo"]}]

ShortInit ==
    /\ ClientInit
    /\ \E book \in ShortBooks : \E pattern \in Range(PatternIds) :
            env = ShortEnv(book, pattern)
    /\ NoClassifier
    /\ NoScans

SpecShort == ShortInit /\ [][ScanNext]_vars

\* The streams and their events: books with matches, a symbol without a
\* match, a symbol whose match cannot be built, no symbol at all; an
\* upstream that answers with the book or fails
EventBooks ==
    {<<Entry("AAPL", "gap3"), Entry("MSFT", "null"), Entry("NVDA", "gap5")>>,
     <<Entry("NVDA", "down3"), Entry("AAPL", "gap3")>>,
     <<Entry("MSFT", "null")>>,
     <<>>}

EventsEnv(book) == [ResultsEnv(book) EXCEPT !.answers = {"book", "500"}]

EventsInit ==
    /\ ClientInit
    /\ \E book \in EventBooks : env = EventsEnv(book)
    /\ NoClassifier
    /\ NoScans

SpecEvents == EventsInit /\ [][ScanNext]_vars

----------------------------------------------------------------------------
(* Scans and chart requests on the shared client, each run from start to
   end: scan_pattern for a volume spike or an MA crossover and get_chart for
   a ticker, over the longer history *)

ChartEnv(other, period) ==
    [requests |-> {},
     answers |-> {"long_history", other},
     delays |-> {TicksPerSec},
     horizon |-> TicksPerSec,
     clear |-> FALSE,
     charts |-> {"AAPL", "MSFT"},
     scans |-> {[pattern |-> "ma_crossover_bullish", timeframe |-> "1d",
                 period |-> period],
                [pattern |-> "volume_spike", timeframe |-> "1d",
                 period |-> period]}]

ChartEnvs ==
    {ChartEnv(other, period) :
        other \in {"no_bars", "500"}, period \in {"1mo", "3mo"}}

ChartInit == ClientInit /\ env \in ChartEnvs /\ NoClassifier /\ NoScans

ChartNext ==
    \/ \E h \in 1..MaxScans :
          \/ scan_pattern(h)
          \/ get_chart(h)
    \/ Tick

SpecChart == ChartInit /\ [][ChartNext]_vars

----------------------------------------------------------------------------
(* What the history says the cache should hold *)

IsFetch(c) == c.op = "get_historical_data"

\* request i was answered 200 with a data list: its parsed result was stored
StoredBy(i) ==
    /\ Responded(wire[i].resp)
    /\ wire[i].resp.status = 200
    /\ wire[i].resp.json.has_data

\* the last store under `key` among the first `upto` requests that no
\* clear_cache has removed since
StoredAsOf(key, upto) ==
    LET stores == {i \in (cleared_at + 1)..upto : wire[i].key = key /\ StoredBy(i)}
    IN IF stores = {} THEN None
       ELSE LET i == CHOOSE j \in stores : \A m \in stores : m <= j
            IN Some([payload |-> ParseResponse(wire[i].resp.json),
                     at |-> wire[i].end, by |-> i])

\* the call met an entry for its fingerprint that was stored less than the
\* ttl before
ValidAtEntry(c) ==
    LET s == StoredAsOf(c.key, c.wire0)
    IN s.some /\ c.t0 - s.val.at < Ttl

Sent(c) == Len(wire) - c.wire0

----------------------------------------------------------------------------
(* C1: a get_historical_data call that meets no valid cache entry for its
   request sends exactly one HTTP request upstream, and that request
   carries all the symbols of the call, whether the call returns or
   raises. *)
C1_BatchEfficiency ==
    (IsFetch(call) /\ ~ValidAtEntry(call)) =>
        /\ Sent(call) = 1
        /\ split(",", wire[Len(wire)].symbols) = call.symbols

\* a cold call for two symbols that raised, after one request
C1_Witness ==
    /\ IsFetch(call) /\ ~ValidAtEntry(call)
    /\ Len(call.symbols) = 2
    /\ ~call.ret.ok
    /\ Sent(call) = 1

(* C2: a call that meets an entry stored for its fingerprint less than 900 s
   before (no clear_cache since) returns the stored payload and sends no
   request, whatever the payload. *)
C2_CacheHit ==
    (IsFetch(call) /\ ValidAtEntry(call)) =>
        /\ Sent(call) = 0
        /\ call.ret.ok
        /\ heap[call.ret.val] = StoredAsOf(call.key, call.wire0).val.payload

(* C3: every upstream request starts at least 1 s after the request before
   it returned or raised, whatever its outcome; the first request of a
   client is sent without waiting. *)
C3_RateLimitSpacing ==
    /\ \A i \in 2..Len(wire) : wire[i].start >= wire[i - 1].end + RateTicks
    /\ (IsFetch(call) /\ call.wire0 = 0 /\ Sent(call) = 1) =>
            wire[1].start = call.t0

(* C6: at every moment and for every fingerprint, the cache lookup gives the
   payload last stored under that fingerprint if one was stored (and not
   cleared) less than 900 s ago, and none otherwise: none at an age of
   exactly 900 s, and never a payload stored under another fingerprint. *)
KnownKeys ==
    DOMAIN cache \cup DOMAIN cache_timestamps
    \cup {wire[i].key : i \in 1..Len(wire)}
    \cup {CacheKey(r.symbols, Resolve(r.timeframe, r.period, now)) : r \in Requests}

C6_CacheValidity ==
    \A k \in KnownKeys :
        LET s == StoredAsOf(k, Len(wire))
            got == _get_from_cache(k, now)
        IN IF s.some /\ now - s.val.at < Ttl
           THEN got.some /\ heap[got.val] = s.val.payload
           ELSE got = None

\* two fingerprints stored with different payloads, one expired, one valid
C6_Witness ==
    \E k1, k2 \in DOMAIN cache :
        /\ heap[cache[k1]] # heap[cache[k2]]
        /\ now - cache_timestamps[k1] >= Ttl
        /\ now - cache_timestamps[k2] < Ttl
        /\ _get_from_cache(k1, now) = None
        /\ _get_from_cache(k2, now) = Some(cache[k2])

(* C7: a call whose symbol list is a reordering of the list of an earlier
   request with the same endpoint, interval, date range and limit, made
   less than 900 s after that request's result was stored, is served from
   that entry and sends no request. *)
SameButOrder(c, w) ==
    /\ w.endpoint = c.request.endpoint
    /\ w.interval = c.request.interval
    /\ w.date_from = c.request.date_from
    /\ w.date_to = c.request.date_to
    /\ w.limit = c.request.limit
    /\ split(",", w.symbols) # c.symbols
    /\ sorted(split(",", w.symbols)) = sorted(c.symbols)

C7_OrderIndependence ==
    IsFetch(call) =>
        \A i \in (cleared_at + 1)..call.wire0 :
            (/\ StoredBy(i)
             /\ SameButOrder(call, wire[i])
             /\ \A j \in (i + 1)..call.wire0 :
                    ~(StoredBy(j) /\ sorted(split(",", wire[j].symbols))
                                        = sorted(call.symbols))
             /\ call.t0 - wire[i].end < Ttl)
            => /\ wire[i].key = call.key
               /\ Sent(call) = 0
               /\ call.ret.ok
               /\ heap[call.ret.val] = ParseResponse(wire[i].resp.json)

(* C8: clear_cache empties the cache and changes neither api_calls_made
   nor the rate limiter's last-call time (nor sends anything); the fetch
   that follows a clear_cache sends an upstream request; api_calls_made
   never decreases. *)
C8_ClearCache ==
    [][/\ api_calls_made' >= api_calls_made
       /\ (call'.n # call.n /\ call'.op = "clear_cache") =>
            /\ Cardinality(DOMAIN cache') = 0
            /\ DOMAIN cache_timestamps' = {}
            /\ api_calls_made' = api_calls_made
            /\ last_request_time' = last_request_time
            /\ wire' = wire
            /\ now' = now
       /\ (call.op = "clear_cache" /\ call'.n # call.n /\ IsFetch(call')) =>
            Len(wire') = Len(wire) + 1]_vars

\* a fetch right after a clear_cache, for a fingerprint that was stored
\* with bars less than 900 s before: it went upstream again
C8_Witness ==
    /\ IsFetch(call) /\ call.prev_op = "clear_cache"
    /\ Sent(call) = 1
    /\ api_calls_made >= 2
    /\ \E i \in 1..cleared_at :
          /\ wire[i].key = call.key /\ StoredBy(i)
          /\ wire[i].resp.json.data # <<>>
          /\ call.t0 - wire[i].end < Ttl

(* C10: every classifier, on every series of bars with positive prices and
   non-negative volumes, returns a confidence between 0 and 1 and reports
   found exactly when the confidence is above 0.5. *)
C10_ConfidenceRange ==
    detected.pattern # "" =>
        /\ FGe(detected.result.confidence, Zero)
        /\ FLe(detected.result.confidence, One)
        /\ detected.result.found <=> FGt(detected.result.confidence, min_confidence)

----------------------------------------------------------------------------
(* The scans *)

\* the upstream did not answer 200: a timeout, a network error, 429 or
\* another status
UpstreamFailed(resp) ==
    \/ resp.kind \in {"timeout", "network_error"}
    \/ resp.kind = "response" /\ resp.status # 200

Fetched(h) == scans[h].fetch.n # 0

\* the requests that handler h's call of the client sent
SentBy(h) == {i \in 1..Len(wire) : wire[i].by = scans[h].fetch.n}

\* h2 had started and not yet fetched when h1 fetched
Overlap(h1, h2) ==
    /\ Fetched(h1) /\ Fetched(h2)
    /\ scans[h2].born < scans[h1].fetch.n
    /\ scans[h1].fetch.n < scans[h2].fetch.n

(* C4: of two scans under way at the same time that ask for the same
   fingerprint, the first to fetch finding no valid entry, only the first
   sends an upstream request; the second sends none and gets what the
   first got. *)
C4_Coalescing ==
    \A h1, h2 \in 1..MaxScans :
        (/\ Overlap(h1, h2)
         /\ scans[h1].fetch.key = scans[h2].fetch.key
         /\ SentBy(h1) # {})
        => /\ SentBy(h2) = {}
           /\ scans[h2].fetch.ret = scans[h1].fetch.ret

(* C5: the upstream requests of scans under way at the same time for
   different fingerprints are serialized by the rate limiter: no two of
   them start less than 1 s apart. *)
C5_Serialized ==
    \A h1, h2 \in 1..MaxScans :
        (/\ Overlap(h1, h2)
         /\ scans[h1].fetch.key # scans[h2].fetch.key)
        => \A i \in SentBy(h1), j \in SentBy(h2) :
              wire[j].start - wire[i].start >= RateTicks

(* C9: when the upstream request of a scan's batch fetch fails (429, another
   non-200 status, a timeout, a network error), the fetch raises after that
   one request, the cache is left as it was, and the scan ends there with
   an error and no match: the stream with an error event, scan_pattern with
   status 500. *)
C9_UpstreamFailure ==
    [][\A h \in 1..MaxScans :
          (/\ scans'[h].fetch.n # scans[h].fetch.n
           /\ Len(wire') > Len(wire)
           /\ UpstreamFailed(wire'[Len(wire')].resp))
          => /\ Len(wire') = Len(wire) + 1
             /\ ~scans'[h].fetch.ret.ok
             /\ cache' = cache
             /\ cache_timestamps' = cache_timestamps
             /\ heap' = heap
             /\ scans'[h].pc = "done"
             /\ scans'[h].results = <<>>
             /\ \A e \in 1..Len(scans'[h].events) :
                    scans'[h].events[e].type # "match"
             /\ IF scans'[h].kind = "stream"
                THEN scans'[h].events[Len(scans'[h].events)]
                        = ErrorEvent(scans'[h].fetch.ret.err)
                ELSE /\ scans'[h].response.status = 500
                     /\ "matches" \notin DOMAIN scans'[h].response]_vars

\* a stream that ended on the error of its failed fetch, one request sent,
\* while the cache holds the entry an earlier scan stored
C9_Witness ==
    \E h \in 1..MaxScans :
        /\ scans[h].kind = "stream" /\ scans[h].pc = "done"
        /\ Fetched(h) /\ ~scans[h].fetch.ret.ok
        /\ Cardinality(SentBy(h)) = 1
        /\ \A i \in SentBy(h) : UpstreamFailed(wire[i].resp)
        /\ scans[h].events[Len(scans[h].events)].type = "error"
        /\ \E h0 \in 1..MaxScans :
              /\ Fetched(h0) /\ scans[h0].fetch.n < scans[h].fetch.n
              /\ scans[h0].fetch.ret.ok
              /\ scans[h0].fetch.key \in DOMAIN cache

----------------------------------------------------------------------------
(* The classifiers on short and degenerate series *)

Classified == detected.pattern # ""

\* the minimum length stated for each classifier
StatedMinimum(pattern) ==
    CASE pattern \in {"bull_flag", "bear_flag", "double_top", "double_bottom"} -> 30
      [] pattern = "head_shoulders" -> 40
      [] pattern \in {"gap_up", "gap_down"} -> 2
      [] pattern = "volume_spike" -> 21
      [] pattern \in {"ma_crossover_bullish", "ma_crossover_bearish"} -> 51

(* C11: every classifier called on a series shorter than its stated minimum
   length (30 for the flags and the double top and bottom, 40 for head and
   shoulders, 2 for the gaps, 21 for the volume spike, 51 for the MA
   crossovers), the empty series included, returns found = false with
   confidence 0: it returns, it does not raise. *)
C11_InsufficientHistory ==
    (Classified /\ len(frame) < StatedMinimum(detected.pattern))
    => detected.result = Result(FALSE, Zero)

\* a volume-spike call on 20 bars whose last volume is three times the
\* others: one bar short, nothing found
C11_Witness ==
    /\ detected.pattern = "volume_spike"
    /\ len(frame) = 20
    /\ frame.rows[20].Volume = 3000 /\ frame.rows[19].Volume = 1000
    /\ detected.result = Result(FALSE, Zero)

\* every price of every bar is positive
PositivePrices(df) ==
    \A i \in 1..len(df) :
        /\ df.rows[i].Open > 0 /\ df.rows[i].High > 0
        /\ df.rows[i].Low > 0 /\ df.rows[i].Close > 0

\* no bar has its high under its low
HighOverLow(df) == \A i \in 1..len(df) : df.rows[i].High >= df.rows[i].Low

\* the bars of df in reverse order
Reversed(df) ==
    [df EXCEPT !.rows = [i \in 1..len(df) |-> df.rows[len(df) + 1 - i]]]

\* the bars of df in reverse order, each with its high and low exchanged
Mirrored(df) ==
    [df EXCEPT !.rows =
        [i \in 1..len(df) |->
            [df.rows[len(df) + 1 - i] EXCEPT
                !.High = df.rows[len(df) + 1 - i].Low,
                !.Low = df.rows[len(df) + 1 - i].High]]]

(* C12: when detect_gap_up finds a gap with confidence c on a series,
   detect_gap_down finds one with the same confidence c on the series
   reversed with the roles of high and low swapped, and conversely; the
   swap is read both ways, as the exchange that going from gap-up to
   gap-down makes and as an exchange of the two columns.  Stated for bars
   of positive prices with high >= low. *)
C12_GapSymmetry ==
    (PositivePrices(frame) /\ HighOverLow(frame)) =>
        /\ (detected.pattern = "gap_up" /\ detected.result.found)
           => \/ detect_gap_down(Reversed(frame)) = detected.result
              \/ detect_gap_down(Mirrored(frame)) = detected.result
        /\ (detected.pattern = "gap_down" /\ detected.result.found)
           => \/ detect_gap_up(Reversed(frame)) = detected.result
              \/ detect_gap_up(Mirrored(frame)) = detected.result

(* C13: on no series of bars, whatever positive values their highs and
   lows take, do detect_gap_up and detect_gap_down both report found. *)
C13_GapExclusion ==
    PositivePrices(frame) =>
        /\ (detected.pattern = "gap_up" /\ detected.result.found)
           => ~detect_gap_down(frame).found
        /\ (detected.pattern = "gap_down" /\ detected.result.found)
           => ~detect_gap_up(frame).found

\* the values a classifier divides by on df: the first close of each flag
\* half and the consolidation range; the values of the last peaks or troughs;
\* yesterday's high or low; the mean of the prior 20 volumes; the slow
\* moving average
Divisors(pattern, df) ==
    LET closes30 == tail(Close(df), 30)
        closes40 == tail(Close(df), 40)
        ValuesAt(closes, peaks, k) ==
            IF Len(peaks) < k THEN {}
            ELSE {closes[tail(peaks, k)[i]] : i \in 1..k}
    IN CASE pattern \in {"bull_flag", "bear_flag"} ->
              IF len(df) < 30 THEN {}
              ELSE {closes30[1], closes30[16],
                    FSub(max_of(SubSeq(closes30, 16, 30)),
                         min_of(SubSeq(closes30, 16, 30)))}
         [] pattern = "head_shoulders" ->
              IF len(df) < 40 THEN {}
              ELSE ValuesAt(closes40, find_peaks(closes40, 5), 3)
         [] pattern = "double_top" ->
              IF len(df) < 30 THEN {}
              ELSE ValuesAt(closes30, find_peaks(closes30, 5), 2)
         [] pattern = "double_bottom" ->
              IF len(df) < 30 THEN {}
              ELSE ValuesAt(closes30, find_peaks(Negated(closes30), 5), 2)
         [] pattern = "gap_up" ->
              IF len(df) < 2 THEN {} ELSE {High(df)[len(df) - 1]}
         [] pattern = "gap_down" ->
              IF len(df) < 2 THEN {} ELSE {Low(df)[len(df) - 1]}
         [] pattern = "volume_spike" ->
              IF len(df) < 21 THEN {}
              ELSE {mean(SubSeq(Volume(df), len(df) - 20, len(df) - 1))}
         [] pattern \in {"ma_crossover_bullish", "ma_crossover_bearish"} ->
              IF len(df) < 51 THEN {}
              ELSE {rolling_mean(Close(df), 50, len(df))}

(* C14: a classifier one of whose divisors is zero (a zero consolidation
   range, a zero mean of the prior 20 volumes, a zero reference price)
   returns found = false with confidence 0, never found = true. *)
C14_ZeroDivisor ==
    (Classified /\ Zero \in Divisors(detected.pattern, frame))
    => detected.result = Result(FALSE, Zero)

----------------------------------------------------------------------------
(* The cached payloads under scans and chart requests *)

(* C15: at every moment, every payload the cache holds is, bar for bar and
   column for column, what the fetch that stored it parsed from the
   upstream's answer: no scan, no classifier and no chart request has
   changed it. *)
C15_CachedPayloadImmutable ==
    \A k \in DOMAIN cache :
        LET s == StoredAsOf(k, Len(wire))
        IN s.some /\ heap[cache[k]] = s.val.payload

----------------------------------------------------------------------------
(* The results of the scans *)

\* handler h is a scan, streamed or not, that fetched its data and is over
ScanOver(h) ==
    /\ scans[h].kind \in {"scan", "stream"}
    /\ scans[h].pc = "done"
    /\ Fetched(h) /\ scans[h].fetch.ret.ok

\* the final result of a scan: the matches of scan_pattern's response, the
\* results of the stream's `complete` event
FinalResult(h) ==
    IF scans[h].kind = "scan"
    THEN IF scans[h].response.status = 200
         THEN Some(scans[h].response.matches) ELSE None
    ELSE LET last == scans[h].events[Len(scans[h].events)]
         IN IF last.type = "complete" THEN Some(last.results) ELSE None

\* the tickers of the fetched dict the pattern is looked for on, those it
\* is found on, and of these the ones whose result cannot be built
Processed(h) ==
    {t \in DOMAIN heap[scans[h].data_dict].at :
        ~Insufficient(heap[scans[h].data_dict].at[t])}
Found(h) ==
    {t \in Processed(h) :
        Detect(scans[h].pattern, heap[scans[h].data_dict].at[t]).found}
Failing(h) == {t \in Found(h) : MatchRaises(heap[scans[h].data_dict].at[t])}

TickersOf(results) == {results[i].ticker : i \in 1..Len(results)}

(* C16: a scan, streamed or not, in which building one symbol's result
   raised has gone on with the other symbols: it ends with a final result,
   and every symbol the pattern was found on, before or after the failing
   one, is in it; the failing symbol is not; the stream has recorded the
   failure in an error event naming the symbol. *)
C16_FailureIsolation ==
    \A h \in 1..MaxScans :
        (ScanOver(h) /\ Failing(h) # {})
        => /\ FinalResult(h).some
           /\ TickersOf(FinalResult(h).val) = Found(h) \ Failing(h)
           /\ scans[h].kind = "stream" =>
                \A t \in Failing(h) :
                    \E e \in 1..Len(scans[h].events) :
                        scans[h].events[e] = TickerErrorEvent(t, IntOfNan)

(* C17: the matches scan_pattern returns are in descending order of
   confidence, two matches of equal confidence in the order of their
   symbols, whatever the order the upstream listed the symbols in; and
   total_matches is the number of matches returned. *)
C17_ResultOrdering ==
    \A h \in 1..MaxScans :
        (ScanOver(h) /\ scans[h].kind = "scan")
        => LET matches == scans[h].response.matches
           IN /\ scans[h].response.total_matches = Len(matches)
              /\ \A i, j \in 1..Len(matches) :
                    i < j =>
                        \/ matches[i].confidence > matches[j].confidence
                        \/ /\ matches[i].confidence = matches[j].confidence
                           /\ Rank(matches[i].ticker) < Rank(matches[j].ticker)

\* a stream and a scan_pattern call for the same pattern, timeframe and
\* period, both over, that worked on the same fetched data
SameScan(h1, h2) ==
    /\ ScanOver(h1) /\ scans[h1].kind = "stream"
    /\ ScanOver(h2) /\ scans[h2].kind = "scan"
    /\ scans[h1].pattern = scans[h2].pattern
    /\ scans[h1].timeframe = scans[h2].timeframe
    /\ scans[h1].period = scans[h2].period
    /\ heap[scans[h1].data_dict] = heap[scans[h2].data_dict]

(* C18: a streaming scan whose batch fetch succeeded ends with a `complete`
   event, and the matches, the total_scanned and the total_matches of that
   event are those that scan_pattern returns for the same pattern,
   timeframe and period over the same data. *)
C18_StreamEqualsScan ==
    /\ \A h \in 1..MaxScans :
          (ScanOver(h) /\ scans[h].kind = "stream")
          => scans[h].events[Len(scans[h].events)].type = "complete"
    /\ \A h1, h2 \in 1..MaxScans :
          SameScan(h1, h2)
          => LET complete == scans[h1].events[Len(scans[h1].events)]
             IN /\ complete.results = scans[h2].response.matches
                /\ complete.total_scanned = scans[h2].response.total_scanned
                /\ complete.total_matches = scans[h2].response.total_matches

----------------------------------------------------------------------------
(* What the cache keeps *)

\* the step is a call of get_historical_data that stored its answer
RefetchOf(k) ==
    /\ call'.op = "get_historical_data"
    /\ call'.n = call.n + 1
    /\ call'.key = k
    /\ call'.ret.ok
    /\ Len(wire') = Len(wire) + 1
    /\ wire'[Len(wire')].resp.kind = "response"
    /\ wire'[Len(wire')].resp.status = 200

\* the entry of fingerprint k is what it was: same object, same content,
\* same time
Untouched(k) ==
    /\ cache'[k] = cache[k]
    /\ heap'[cache'[k]] = heap[cache[k]]
    /\ cache_timestamps'[k] = cache_timestamps[k]

\* the entry of fingerprint k is a new payload fetched at the present time
Overwritten(k) ==
    /\ cache'[k] = call'.ret.val
    /\ cache'[k] > Len(heap)
    /\ cache_timestamps'[k] = now'

(* C19: over every step that is not clear_cache (a fetch answered from the
   cache or by the upstream, a failed upstream call, the passing of time
   across the ttl) the set of stored fingerprints does not shrink and
   cache_entries does not decrease; every stored entry, expired or not,
   stays what it was unless the step is a successful fetch of its own
   fingerprint, which gives it a new payload and the present time as its
   fetch time; so a refetch touches no entry of another fingerprint. *)
C19_OnlyClearRemoves ==
    [][clears' = clears =>
        /\ DOMAIN cache \subseteq DOMAIN cache'
        /\ DOMAIN cache_timestamps' = DOMAIN cache'
        /\ get_usage_stats'.cache_entries >= get_usage_stats.cache_entries
        /\ \A k \in DOMAIN cache :
              \/ Untouched(k)
              \/ RefetchOf(k) /\ Overwritten(k)]_vars

\* a fingerprint was fetched, expired and fetched again with success, which
\* the record of the requests sent shows, and the entry of another
\* fingerprint, itself expired, is still stored
C19_Witness ==
    /\ call.op = "get_historical_data"
    /\ call.ret.ok
    /\ call.key \in DOMAIN cache
    /\ cache_timestamps[call.key] = now
    /\ \E i, j \in 1..Len(wire) :
          /\ i < j /\ j = Len(wire)
          /\ wire[i].key = call.key /\ wire[j].key = call.key
          /\ wire[i].resp.status = 200 /\ wire[j].resp.status = 200
          /\ wire[j].start - wire[i].end >= Ttl
          /\ cleared_at < i
    /\ \E k \in DOMAIN cache :
          /\ k # call.key
          /\ now - cache_timestamps[k] >= Ttl

----------------------------------------------------------------------------
(* The request a call resolves to *)

\* samples in a day at an upstream interval
SamplesPerDay(interval) ==
    CASE interval = "1hour" -> 24
      [] interval = "30min" -> 48
      [] interval = "15min" -> 96
      [] interval = "5min" -> 288
      [] interval = "1min" -> 1440

\* the last call was get_historical_data and it sent a request upstream
SentUpstream == call.op = "get_historical_data" /\ Len(wire) > call.wire0

(* C20: whatever the timeframe and the period of a call, known or not, the
   limit of the request it sends upstream is at most 1000; with days the
   number of days of the period (30 when the period is unknown) it is
   min(days + 5, 1000) on the end-of-day endpoint and, on the intraday
   endpoint, min(days * samples-per-day, 1000) for the samples-per-day of
   the interval that the request asks for. *)
C20_LimitResolution ==
    SentUpstream =>
        LET sent == wire[Len(wire)]
            days == period_map(call.period)
        IN /\ sent.limit <= LimitCap
           /\ sent.endpoint = "eod"
                 => sent.limit = Min(days + EodBuffer, LimitCap)
           /\ sent.endpoint = "intraday"
                 => sent.limit = Min(days * SamplesPerDay(sent.interval),
                                     LimitCap)

----------------------------------------------------------------------------
(* What a response is parsed into *)

\* the last call was answered by the upstream and returned a payload
Parsed == call.op = "get_historical_data" /\ call.ret.ok /\ Len(wire) > call.wire0

\* the records of the last answer, and those of them tagged with a symbol
AnsweredRecords == wire[Len(wire)].resp.json.data
RecordsFor(symbol) ==
    {AnsweredRecords[i] : i \in {j \in 1..Len(AnsweredRecords) :
                                    AnsweredRecords[j].symbol = symbol}}

(* C21: whatever records the upstream answers with, in whatever order and
   with whatever repetitions of a symbol and date, every series of the
   payload returned is non-empty, holds only bars made of records tagged
   with its symbol, and has strictly increasing dates (so no date twice);
   and a requested symbol without a record in the answer is not a key of
   the payload. *)
C21_SeriesWellFormed ==
    Parsed =>
        LET payload == heap[call.ret.val] IN
        /\ \A symbol \in DOMAIN payload.at :
              LET rows == payload.at[symbol].rows IN
              /\ rows # <<>>
              /\ \A i \in 1..Len(rows) :
                    \E item \in RecordsFor(symbol) : rows[i] = Bar(item)
              /\ \A i \in 1..(Len(rows) - 1) : rows[i].Date < rows[i + 1].Date
        /\ \A i \in 1..Len(call.symbols) :
              RecordsFor(call.symbols[i]) = {}
                 => call.symbols[i] \notin DOMAIN payload.at

----------------------------------------------------------------------------
(* The double top *)

\* the last 30 closes of the frame and the peaks found in them
Last30 == tail(Close(frame), 30)
PeaksOf(closes) == find_peaks(closes, 5)

\* the two last peaks of closes are within 3% of each other, the lowest
\* close from the first of them to the second is at least 2% below the
\* higher of them, and the last close is below the second
PulledBackFrom(closes, peaks) ==
    /\ Len(peaks) >= 2
    /\ LET first == closes[peaks[Len(peaks) - 1]]
           second == closes[peaks[Len(peaks)]]
           trough == min_of(Slice(closes, peaks[Len(peaks) - 1], peaks[Len(peaks)]))
       IN /\ FLe(FDiv(FAbs(FSub(first, second)), first), Pct(3))
          /\ FGe(FDiv(FSub(max(first, second), trough), max(first, second)), Pct(2))
          /\ FLt(Last(closes), second)

(* C22: detect_double_top reports found only for a series in whose last
   30 closes the last two peaks are within 3% of each other, the trough
   between them is at least 2% below the peak level and the last close is
   below the second peak: a series whose last close is at or above the
   second peak is never reported as a double top. *)
C22_DoubleTopCore ==
    (detected.pattern = "double_top" /\ detected.result.found)
    => /\ len(frame) >= 30
       /\ PulledBackFrom(Last30, PeaksOf(Last30))

----------------------------------------------------------------------------
(* The count of calls *)

(* C23: at every moment api_calls_made, which get_usage_stats reports as
   total_api_calls, is the number of HTTP requests the client has sent
   upstream so far, those answered with another status than 200, those
   that timed out and those that met a network error counted like the
   successful ones; a call answered from the cache sends nothing and
   leaves the count as it is. *)
C23_CallAccounting ==
    /\ api_calls_made = Len(wire)
    /\ get_usage_stats.total_api_calls = Len(wire)

----------------------------------------------------------------------------
(* The scans and the short series *)

\* the handler holds the dict it fetched
Holds(h) == scans[h].kind \in {"scan", "stream"} /\ scans[h].data_dict # 0

\* the tickers of that dict with fewer than 20 bars
Short(h) ==
    {t \in DOMAIN heap[scans[h].data_dict].at :
        len(heap[scans[h].data_dict].at[t]) < 20}

\* the tickers the events of a stream are about: those it announced the
\* scan of, those it reported a match on, those it reported an error on
EventTickers(events) ==
    {events[i].ticker : i \in {j \in 1..Len(events) :
                                  "ticker" \in DOMAIN events[j]}}
    \cup {events[i].result.ticker : i \in {j \in 1..Len(events) :
                                              events[j].type = "match"}}

(* C24: a symbol whose series has fewer than 20 bars is skipped by
   scan_pattern and by the stream, whatever the pattern, gap_up and gap_down
   included although their classifiers take 2 bars: no match is reported
   for it, the stream sends no scanning, match or error event about it, its
   frame is as it was fetched, and the scan does not fail on it. *)
C24_LengthPrefilter ==
    \A h \in 1..MaxScans :
        Holds(h) =>
            /\ TickersOf(scans[h].results) \cap Short(h) = {}
            /\ EventTickers(scans[h].events) \cap Short(h) = {}
            /\ \A t \in Short(h) : heap[scans[h].data_dict].at[t].cols = {}
            /\ (ScanOver(h) /\ scans[h].kind = "scan")
                  => /\ scans[h].response.status = 200
                     /\ TickersOf(scans[h].response.matches) \cap Short(h) = {}

\* a scan is over that held a short series on which the classifier asked
\* for, given the series, reports the pattern, and it reported a match on
\* another symbol
C24_Witness ==
    \E h \in 1..MaxScans :
        /\ ScanOver(h)
        /\ \E t \in Short(h) :
              Detect(scans[h].pattern, heap[scans[h].data_dict].at[t]).found
        /\ scans[h].results # <<>>

----------------------------------------------------------------------------
(* The events of a stream *)

\* the event ends the stream: a completion, or an error that names no ticker
Terminal(e) ==
    \/ e.type = "complete"
    \/ e.type = "error" /\ "ticker" \notin DOMAIN e

\* the event carries a progress
Progressing(e) == e.type \in {"status", "scanning"}

\* the events sent so far by a stream, over or not, are in order
InOrder(events, over) ==
    /\ events # <<>>
    /\ events[1].type = "status"
    /\ \A i, j \in 1..Len(events) :
          i < j =>
             /\ events[j].type = "status" => events[i].type = "status"
             /\ (Progressing(events[i]) /\ Progressing(events[j]))
                   => events[i].progress <= events[j].progress
             /\ ~Terminal(events[i])
    /\ \A i \in 1..Len(events) :
          /\ Progressing(events[i])
                => events[i].progress >= 0 /\ events[i].progress <= 100
          /\ events[i].type = "match"
                => \E k \in 1..(i - 1) :
                      /\ events[k].type = "scanning"
                      /\ events[k].ticker = events[i].result.ticker
    /\ over <=> Terminal(events[Len(events)])

(* C25: in every run of the stream the status events come first, the
   progress of the successive status and scanning events never decreases
   and stays within 0..100, a match event comes after the scanning event
   of its symbol, the stream is over exactly when it has sent a terminal
   event (a complete event or an error event naming no ticker), of which
   there is one, the last; and a stream that is over sends nothing more. *)
C25_EventOrder ==
    /\ [](\A h \in 1..MaxScans :
             scans[h].kind = "stream"
                => InOrder(scans[h].events, scans[h].pc = "done"))
    /\ [][\A h \in 1..MaxScans :
             (scans[h].kind = "stream" /\ scans[h].pc = "done")
                => scans'[h] = scans[h]]_vars

\* a stream is over that sent a match event and an error event naming a
\* ticker, and another stream ended on the failure of its fetch
C25_Witness ==
    \E h, g \in 1..MaxScans :
        /\ scans[h].kind = "stream" /\ scans[h].pc = "done"
        /\ \E i, j \in 1..Len(scans[h].events) :
              /\ scans[h].events[i].type = "match"
              /\ scans[h].events[j].type = "error"
              /\ ~Terminal(scans[h].events[j])
        /\ scans[g].kind = "stream" /\ scans[g].pc = "done"
        /\ ~scans[g].fetch.ret.ok
        /\ Fetched(g)

====
